---------------------------- MODULE Spec2Model ----------------------------
(***************************************************************************)
(* The BLE cycling emulator (road-to-halo-zwift): workout generation and   *)
(* the playback tick.                                                      *)
(*                                                                         *)
(* Program versions modelled (variable version):                           *)
(*   "v0235"  src/road_to_halo.ino     simple TSS-normalised generator     *)
(*   "v0245"  src/unnamed/part_001     randomized-duration generator       *)
(*   "v0232"  src/unnamed/part_003     W'bal feasibility-gated generator   *)
(*   "v01"    src/unnamed/part_002     simple emulator without a plan      *)
(*                                                                         *)
(* Number representation.  TLC integers are 32 bit signed.                 *)
(*   - power ratios (float in the code) are integers in units of 1/10000   *)
(*     of FTP: 0.30 is 3000, 1.50 is 15000.  randomFloat has a resolution  *)
(*     of 1/10000 of its range, arithmetic is exact rational arithmetic    *)
(*     floored to that unit; IEEE rounding of float is not modelled.       *)
(*   - TSS values are integers in units of 1/10000 TSS.                    *)
(*   - millis() values (uint32_t milliseconds) are pairs <<s, ms>> with    *)
(*     value 1000*s + ms < 2^32, subtraction is modulo 2^32.               *)
(*   - W'bal values are integer joules; exp() is evaluated in fixed point  *)
(*     to four decimals.                                                   *)
(***************************************************************************)
EXTENDS Integers, Sequences, FiniteSets, TLC

VARIABLES
    version,                  \* which sketch is running
    CUSTOM_DURATION_MINUTES,  \* configuration constants of the sketch
    MAX_CUSTOM_SEGMENTS,
    CUSTOM_TARGET_TSS,
    TRAINING_MODE,
    tickGap,                  \* ms between two playback ticks in this run
    pc,                       \* position of the program
    i,                        \* loop index of the generator loop in progress
    segmentDuration,          \* generateCustomWorkout local (uint16_t)
    remainingDuration,        \* generateWorkout local (uint16_t)
    segmentPowers,            \* generateCustomWorkout local float array
    workout,                  \* WorkoutSegment array
    totalWorkoutSegments,
    totalWorkoutDuration,
    millis,                   \* the millisecond clock
    lastUpdate,
    workoutStartTime,
    segmentStartTime,
    cooldownStartTime,
    currentSegment,
    workoutActive,
    workoutFinished,
    finalHeartRate,
    power,
    cadence,
    cadenceIncreasing,
    heartRate,
    crankRevolutions,
    lastCrankEventTime,
    numCustomSegments,        \* part_003 generateCustomWorkout locals
    segmentDurations,
    currentWbal,
    attempts,
    powerAttempts,
    candidatePower,           \* part_003 line 561: the local targetPower
    allSegmentsFeasible,
    warned,                   \* the "Could not satisfy" warning was printed
    manualTargetPower,        \* part_001 manual mode globals
    lastButtonPressDown,
    lastButtonPressUp,
    buttonDownLastState,
    buttonUpLastState,
    powerMultiplier,          \* updateValues local (float), of the last tick
    deviceConnected,
    powerData,                \* records notified by the last loop iteration
    cadenceData,
    heartData,
    powerIncreasing,          \* part_002 simulation variables
    heartIncreasing,
    contactBounce             \* the contacts of the buttons bounce

config == <<version, CUSTOM_DURATION_MINUTES, MAX_CUSTOM_SEGMENTS,
            CUSTOM_TARGET_TSS, TRAINING_MODE, contactBounce>>
genVars == <<i, segmentDuration, remainingDuration, segmentPowers, workout,
             totalWorkoutSegments, totalWorkoutDuration>>
playVars == <<tickGap, millis, lastUpdate, workoutStartTime, segmentStartTime,
              cooldownStartTime, currentSegment, workoutActive,
              workoutFinished, finalHeartRate, power, cadence,
              cadenceIncreasing, heartRate, crankRevolutions,
              lastCrankEventTime>>
feasVars == <<numCustomSegments, segmentDurations, currentWbal, attempts,
              powerAttempts, candidatePower, allSegmentsFeasible, warned>>
manualVars == <<manualTargetPower, lastButtonPressDown, lastButtonPressUp,
                buttonDownLastState, buttonUpLastState>>
sinkVars == <<deviceConnected, powerData, cadenceData, heartData>>
simpleVars == <<powerIncreasing, heartIncreasing>>
vars == <<config, pc, genVars, playVars, feasVars, manualVars, powerMultiplier,
          sinkVars, simpleVars>>

-----------------------------------------------------------------------------
(* Bounds of the model *)

\* largest configured main duration, in minutes
MaxDurationMinutes == 1
\* largest configured segment count
MaxSegments == 7
\* value of millis() when setup() reaches startWorkout()
SetupMillis == 1500
\* number of seconds the playback is followed after the 300 s recovery
FinalSeconds == 3
\* MAX_CUSTOM_SEGMENTS of the feasibility-gated generator
MaxFeasibleSegments == 16

-----------------------------------------------------------------------------
(* Program constants *)

FTP == 250
HR_BASE == 135
HR_MAX == 170

\* part_001: the manual mode
MANUAL_BASE_POWER == 200
MANUAL_POWER_STEP == 10
MANUAL_DURATION_MINUTES == 60
BUTTON_DEBOUNCE_MS == 200

\* levels of a digital pin
HIGH == TRUE
LOW == FALSE

\* the value 10000 of random(0, 10000) and the unit of a ratio
Unit == 10000

Uint8(x) == x % 256
Uint16(x) == x % 65536

\* ratio literals of the code, in 1/10000
Ratio(percent) == percent * 100

Min(a, b) == IF a < b THEN a ELSE b
Max(a, b) == IF a > b THEN a ELSE b

-----------------------------------------------------------------------------
(* The millisecond clock: uint32_t arithmetic on pairs <<s, ms>> *)

\* 2^32 ms = 4294967 s + 296 ms
WrapS == 4294967
WrapMs == 296

Norm(s, ms) ==
    LET s1 == IF ms < 0 THEN s - 1 ELSE IF ms >= 1000 THEN s + 1 ELSE s
        ms1 == IF ms < 0 THEN ms + 1000 ELSE IF ms >= 1000 THEN ms - 1000 ELSE ms
    IN <<s1, ms1>>

\* (a - b) modulo 2^32
TimeDiff(a, b) ==
    LET d == Norm(a[1] - b[1], a[2] - b[2])
    IN IF d[1] < 0 THEN Norm(d[1] + WrapS, d[2] + WrapMs) ELSE d

\* (a + d) modulo 2^32, d a small number of milliseconds
TimeAdd(a, d) ==
    LET t == Norm(a[1] + (d \div 1000), a[2] + (d % 1000))
    IN IF t[1] > WrapS \/ (t[1] = WrapS /\ t[2] >= WrapMs)
       THEN Norm(t[1] - WrapS, t[2] - WrapMs) ELSE t

\* (a + b) modulo 2^32 for two clock values
TimePlus(a, b) ==
    LET t == Norm(a[1] + b[1], a[2] + b[2])
    IN IF t[1] > WrapS \/ (t[1] = WrapS /\ t[2] >= WrapMs)
       THEN Norm(t[1] - WrapS, t[2] - WrapMs) ELSE t

\* (a - b) / 1000 in uint32_t arithmetic
ElapsedSeconds(a, b) == TimeDiff(a, b)[1]

\* a - b > n for a small n (milliseconds)
ElapsedMoreThan(a, b, n) ==
    LET d == TimeDiff(a, b) IN d[1] > (n \div 1000) \/ (d[1] = (n \div 1000) /\ d[2] > (n % 1000))

-----------------------------------------------------------------------------
(* Pure functions of the sketch *)

\* randomFloat(minVal, maxVal) for the draw k = random(0, 10000)
randomFloat(minVal, maxVal, k) == minVal + (k * (maxVal - minVal)) \div Unit

\* randomInt(minVal, maxVal) for the draw r = random(0, maxVal - minVal + 1);
\* random(0, n) returns 0 when n <= 0
randomInt(minVal, maxVal, r) == Uint16(minVal + (IF maxVal - minVal + 1 <= 0 THEN 0 ELSE r))

\* calculateSegmentTSS: duration * IF^2 * 100 / 3600, in 1/10000 TSS
calculateSegmentTSS(powerStart, powerEnd, duration) ==
    LET averagePower == (powerStart + powerEnd) \div 2
        IFsquared == (averagePower * averagePower) \div Unit
    IN (duration * IFsquared) \div 36

RECURSIVE SumTSS(_, _, _)
\* sum of calculateSegmentTSS over workout[from .. to] (C indices)
SumTSS(w, from, to) ==
    IF from > to THEN 0
    ELSE calculateSegmentTSS(w[from + 1].powerLow, w[from + 1].powerHigh, w[from + 1].duration)
         + SumTSS(w, from + 1, to)

\* floor(10000 * a / c) by long division
Fraction4(a, c) ==
    LET r0 == a % c
        d1 == (r0 * 10) \div c
        r1 == (r0 * 10) % c
        d2 == (r1 * 10) \div c
        r2 == (r1 * 10) % c
        d3 == (r2 * 10) \div c
        r3 == (r2 * 10) % c
        d4 == (r3 * 10) \div c
    IN (a \div c) * Unit + d1 * 1000 + d2 * 100 + d3 * 10 + d4

\* a / c in 1/10000, saturated at 25
Quotient4(a, c) == IF a \div c >= 25 THEN 25 * Unit ELSE Fraction4(a, c)

\* f * f <= 10000 * q, without overflow (f = 100 * h + l)
SquareAtMost(f, q) ==
    LET h == f \div 100
        l == f % 100
        cross == 200 * h * l + l * l
        sqHigh == h * h + cross \div Unit
        sqLow == cross % Unit
    IN sqHigh < q \/ (sqHigh = q /\ sqLow = 0)

RECURSIVE SqrtBisect(_, _, _)
\* the largest f in lo .. hi - 1 with f * f <= 10000 * q, given it holds for lo
SqrtBisect(lo, hi, q) ==
    IF hi - lo <= 1 THEN lo
    ELSE LET mid == (lo + hi) \div 2
         IN IF SquareAtMost(mid, q) THEN SqrtBisect(mid, hi, q) ELSE SqrtBisect(lo, mid, q)

\* sqrt(q) in 1/10000 for q in 1/10000, saturated at 5
Sqrt4(q) == IF q >= 25 * Unit THEN 5 * Unit ELSE SqrtBisect(0, 5 * Unit, q)

\* sqrt(target / current) in 1/10000, saturated at 5.0000 (a boundary of at
\* least 0.30 is clamped to 1.50 by every factor >= 5)
normalizationFactor(target, current) == Sqrt4(Quotient4(target, current))

-----------------------------------------------------------------------------
(* Inputs drawn by the model *)

\* CUSTOM_DURATION_MINUTES of the feasibility-gated generator
FeasibleMinutes == {20, 240}

\* CUSTOM_TARGET_TSS in 1/10000 TSS: 0 (invalid), 1.5 and the sketch's 350.0
TargetTSSValues == {0, 15000, 3500000}

\* random(0, 10000) draws of the zone selector and of the power inside the
\* zone (road_to_halo.ino:495-509): bottom of the recovery zone, bottom of
\* the tempo zone, top of the threshold zone, bottom of the high zone
ZoneDraws == {<<0, 0>>, <<3000, 0>>, <<7000, 9999>>, <<9000, 0>>}

\* random(0, 10000) draws of a forced recovery or forced moderate power
ForcedDraws == {0, 9999}

\* interval type and the two random(0, 10000) draws of generateWorkout
\* (part_001:413-435)
IntervalDraws == {<<1, 9999, 9999>>, <<2, 8500, 5000>>, <<3, 0, 0>>}

\* random(0, 10000) draws of the +-2% power fluctuation
FluctuationDraws == {0, 5000, 9999}

\* ms between two ticks: the first poll later than 1000 ms, the 20 ms poll
TickGaps == {1001, 1020}

-----------------------------------------------------------------------------
(* State after construction: the globals' initialisers *)

UnsetSegment == [duration |-> 0, powerLow |-> 0, powerHigh |-> 0]

InitGlobals ==
    /\ pc = IF version = "v01" THEN "setup" ELSE "generate"
    /\ i = 0
    /\ segmentDuration = 0
    /\ remainingDuration = 0
    /\ segmentPowers = << >>
    /\ workout = << >>
    /\ totalWorkoutSegments = 0
    /\ totalWorkoutDuration = 0
    /\ millis = <<0, 0>>
    /\ lastUpdate = <<0, 0>>
    /\ workoutStartTime = <<0, 0>>
    /\ segmentStartTime = <<0, 0>>
    /\ cooldownStartTime = <<0, 0>>
    /\ currentSegment = 0
    /\ workoutActive = FALSE
    /\ workoutFinished = FALSE
    /\ finalHeartRate = 135
    /\ power = IF version = "v01" THEN 200 ELSE 0
    /\ cadence = 90
    /\ cadenceIncreasing = TRUE
    /\ heartRate = 135
    /\ crankRevolutions = 0
    /\ lastCrankEventTime = 0
    /\ numCustomSegments = 0
    /\ segmentDurations = << >>
    /\ currentWbal = 0
    /\ attempts = 0
    /\ powerAttempts = 0
    /\ candidatePower = 0
    /\ allSegmentsFeasible = FALSE
    /\ warned = FALSE
    /\ manualTargetPower = MANUAL_BASE_POWER
    /\ lastButtonPressDown = <<0, 0>>
    /\ lastButtonPressUp = <<0, 0>>
    /\ buttonDownLastState = HIGH
    /\ buttonUpLastState = HIGH
    /\ powerMultiplier = Ratio(30)
    /\ deviceConnected = FALSE
    /\ powerData = << >>
    /\ cadenceData = << >>
    /\ heartData = << >>
    /\ powerIncreasing = TRUE
    /\ heartIncreasing = TRUE

\* road_to_halo.ino and part_001: every configuration within the bounds, the
\* invalid ones (0) included
InitGen ==
    /\ version \in {"v0235", "v0245"}
    /\ CUSTOM_DURATION_MINUTES \in 0 .. MaxDurationMinutes
    /\ MAX_CUSTOM_SEGMENTS \in (IF version = "v0245" THEN 1 ELSE 0) .. MaxSegments
    /\ CUSTOM_TARGET_TSS \in (IF version = "v0245" THEN {3500000} ELSE TargetTSSValues)
    /\ TRAINING_MODE \in (IF version = "v0245" THEN {"auto", "manual"} ELSE {"auto"})
    /\ tickGap = 0
    /\ contactBounce = FALSE
    /\ InitGlobals

\* part_003: the configured duration of the sketch and a short one, the
\* configured target TSS
InitFeasible ==
    /\ version = "v0232"
    /\ CUSTOM_DURATION_MINUTES \in FeasibleMinutes
    /\ MAX_CUSTOM_SEGMENTS = MaxFeasibleSegments
    /\ CUSTOM_TARGET_TSS = 3500000
    /\ TRAINING_MODE = "auto"
    /\ tickGap = 0
    /\ contactBounce = FALSE
    /\ InitGlobals

-----------------------------------------------------------------------------
(* road_to_halo.ino: generateCustomWorkout *)

\* C array element a[j] of a sequence
At(a, j) == a[j + 1]

WarmupSegment == [duration |-> 600, powerLow |-> Ratio(30), powerHigh |-> Ratio(100)]
CooldownSegment == [duration |-> 600, powerLow |-> Ratio(60), powerHigh |-> Ratio(30)]

\* lines 395-448: the fixed segments, the equal share, the first boundary.
\* The share is an integer division by the segment count: with a count of 0
\* it is undefined; the outcomes modelled are a processor exception and a
\* quotient of 0.
GenerateStart ==
    /\ pc = "generate"
    /\ version = "v0235"
    /\ LET intervalDurationSeconds == CUSTOM_DURATION_MINUTES * 60
           numIntervalSegments == MAX_CUSTOM_SEGMENTS
           total == Uint8(1 + numIntervalSegments + 1)
       IN /\ totalWorkoutSegments' = total
          /\ workout' = [j \in 1 .. total |->
                           IF j = total THEN CooldownSegment
                           ELSE IF j = 1 THEN WarmupSegment
                           ELSE UnsetSegment]
          /\ segmentPowers' = <<Ratio(100)>>
          /\ i' = 1
          /\ IF numIntervalSegments = 0
             THEN \/ /\ pc' = "crashed"
                     /\ segmentDuration' = 0
                  \/ /\ pc' = "boundaries"
                     /\ segmentDuration' = 0
             ELSE /\ pc' = "boundaries"
                  /\ segmentDuration' = Uint16(intervalDurationSeconds \div numIntervalSegments)
    /\ UNCHANGED <<manualVars, powerMultiplier, sinkVars, simpleVars>>
    /\ UNCHANGED <<config, feasVars, remainingDuration, totalWorkoutDuration, playVars>>

\* lines 458-484: the two rules evaluated before a boundary is drawn
forceRecovery(powers, n) ==
    At(powers, n - 1) >= Ratio(140) \/ At(powers, n - 1) >= Ratio(120)

forceModerate(powers, n) ==
    /\ ~forceRecovery(powers, n)
    /\ n >= 3
    /\ Cardinality({j \in (n - 3) .. (n - 1) : At(powers, j) <= Ratio(75)}) >= 3

\* lines 486-511: the boundary drawn, for the draws z (zone selector) and k
targetPower(powers, n, z, k) ==
    IF forceRecovery(powers, n) THEN randomFloat(Ratio(40), Ratio(75), k)
    ELSE IF forceModerate(powers, n) THEN randomFloat(Ratio(75), Ratio(110), k)
    ELSE LET rand == randomFloat(0, Unit, z)
         IN IF rand < Ratio(30) THEN randomFloat(Ratio(40), Ratio(75), k)
            ELSE IF rand < Ratio(70) THEN randomFloat(Ratio(75), Ratio(105), k)
            ELSE IF rand < Ratio(90) THEN randomFloat(Ratio(105), Ratio(120), k)
            ELSE randomFloat(Ratio(120), Ratio(140), k)

\* lines 451-514: one iteration of the loop drawing the interior boundaries
GenerateBoundary ==
    /\ pc = "boundaries"
    /\ version = "v0235"
    /\ i < MAX_CUSTOM_SEGMENTS
    /\ \E d \in ZoneDraws, f \in ForcedDraws :
          LET forced == forceRecovery(segmentPowers, i) \/ forceModerate(segmentPowers, i)
              k == IF forced THEN f ELSE d[2]
          IN segmentPowers' = Append(segmentPowers, targetPower(segmentPowers, i, d[1], k))
    /\ i' = Uint8(i + 1)
    /\ UNCHANGED <<manualVars, powerMultiplier, sinkVars, simpleVars>>
    /\ UNCHANGED <<config, feasVars, pc, segmentDuration, remainingDuration, workout,
                   totalWorkoutSegments, totalWorkoutDuration, playVars>>

\* lines 518-524 and 550-555: the interval segments from the boundaries
WithIntervals(w, powers, n, dur) ==
    [j \in 1 .. Len(w) |->
        IF j >= 2 /\ j <= n + 1
        THEN [duration |-> dur, powerLow |-> At(powers, j - 2), powerHigh |-> At(powers, j - 1)]
        ELSE w[j]]

\* lines 541-548: the interior boundaries scaled and clamped
Normalized(powers, n, factor) ==
    [j \in 1 .. Len(powers) |->
        IF j >= 2 /\ j <= n
        THEN Max(Ratio(30), Min(Ratio(150), (powers[j] * factor) \div Unit))
        ELSE powers[j]]

\* lines 516-580: the last boundary, the segments, the normalization pass
GenerateFinish ==
    /\ pc = "boundaries"
    /\ version = "v0235"
    /\ ~(i < MAX_CUSTOM_SEGMENTS)
    /\ LET n == MAX_CUSTOM_SEGMENTS
           powers == IF n = 0 THEN <<Ratio(60)>> ELSE Append(segmentPowers, Ratio(60))
           generated == WithIntervals(workout, powers, n, segmentDuration)
           currentTSS == SumTSS(generated, 1, totalWorkoutSegments - 2)
           scaled == Normalized(powers, n, normalizationFactor(CUSTOM_TARGET_TSS, currentTSS))
       IN IF currentTSS > 0
          THEN /\ segmentPowers' = scaled
               /\ workout' = WithIntervals(workout, scaled, n, segmentDuration)
          ELSE /\ segmentPowers' = powers
               /\ workout' = generated
    /\ pc' = "setup"
    /\ UNCHANGED <<manualVars, powerMultiplier, sinkVars, simpleVars>>
    /\ UNCHANGED <<config, feasVars, i, segmentDuration, remainingDuration,
                   totalWorkoutSegments, totalWorkoutDuration, playVars>>

\* setup(), lines 597-600 and 666, and startWorkout(), lines 693-702: the
\* total duration summed over the plan, the session started
RECURSIVE SumDurations(_, _)
SumDurations(w, n) == IF n = 0 THEN 0 ELSE w[n].duration + SumDurations(w, n - 1)

\* startWorkout(), lines 693-702
StartWorkout ==
    /\ millis' = TimeAdd(millis, SetupMillis)
    /\ workoutStartTime' = millis'
    /\ segmentStartTime' = millis'
    /\ currentSegment' = 0
    /\ workoutActive' = TRUE
    /\ workoutFinished' = FALSE
    /\ tickGap' \in TickGaps
    /\ pc' = "loop"
    /\ UNCHANGED <<manualVars, powerMultiplier, sinkVars, simpleVars>>
    /\ UNCHANGED <<config, feasVars, i, segmentDuration, remainingDuration, segmentPowers, workout,
                   totalWorkoutSegments, lastUpdate, cooldownStartTime, finalHeartRate,
                   power, cadence, cadenceIncreasing, heartRate, crankRevolutions,
                   lastCrankEventTime>>

Setup ==
    /\ pc = "setup"
    /\ version = "v0235"
    /\ totalWorkoutDuration' = totalWorkoutDuration + SumDurations(workout, totalWorkoutSegments)
    /\ StartWorkout

-----------------------------------------------------------------------------
(* part_001: generateWorkout, with the manual mode *)

\* random(0, maxVal - minVal + 1) draws of a segment duration: the least and
\* the greatest value
DurationDraws(minVal, maxVal) == {0, Max(0, maxVal - minVal)}

\* lines 345-388: the manual plan, or the warmup and the average share of
\* the auto plan.  The share is an integer division by the number of custom
\* segments: with MAX_CUSTOM_SEGMENTS = 2 it is undefined (modelled as a
\* processor exception or a quotient of 0).
GenerateWorkoutStart ==
    /\ pc = "generate"
    /\ version = "v0245"
    /\ IF TRAINING_MODE = "manual"
       THEN /\ totalWorkoutSegments' = 1
            /\ workout' = <<[duration |-> Uint16(MANUAL_DURATION_MINUTES * 60),
                             powerLow |-> (MANUAL_BASE_POWER * Unit) \div FTP,
                             powerHigh |-> (MANUAL_BASE_POWER * Unit) \div FTP]>>
            /\ totalWorkoutDuration' = MANUAL_DURATION_MINUTES * 60
            /\ pc' = "setup"
            /\ UNCHANGED <<i, segmentDuration, remainingDuration>>
       ELSE LET warmupDuration == 900
                cooldownDuration == 600
                mainDuration == Uint16(CUSTOM_DURATION_MINUTES * 60)
                total == MAX_CUSTOM_SEGMENTS
                customSegments == Uint8(total - 2)
            IN /\ totalWorkoutDuration' = warmupDuration + mainDuration + cooldownDuration
               /\ totalWorkoutSegments' = total
               /\ workout' = [j \in 1 .. total |->
                                IF j = 1
                                THEN [duration |-> warmupDuration, powerLow |-> Ratio(30),
                                      powerHigh |-> Ratio(70)]
                                ELSE UnsetSegment]
               /\ remainingDuration' = mainDuration
               /\ i' = 1
               /\ IF customSegments = 0
                  THEN \/ /\ pc' = "crashed"
                          /\ segmentDuration' = 0
                       \/ /\ pc' = "segments"
                          /\ segmentDuration' = 0
                  ELSE /\ pc' = "segments"
                       /\ segmentDuration' = Uint16(mainDuration \div customSegments)
    /\ UNCHANGED <<manualVars, powerMultiplier, sinkVars, simpleVars>>
    /\ UNCHANGED <<config, feasVars, segmentPowers, playVars>>

\* the greatest power of two that is less than m (1 for m <= 2)
RECURSIVE PowerOfTwoBelow(_, _)
PowerOfTwoBelow(m, p) == IF p * 2 < m THEN PowerOfTwoBelow(m, p * 2) ELSE p

\* line 399: avgCustomSegmentDuration * 0.7 converted to uint16_t.  The
\* product is a double and the constant 0.7 is the double just below 7/10
\* (by 0.4 * 2^-53): where 7/10 of the average is a whole number m, the
\* product is rounded to the double below m, and truncated to m - 1, when
\* 0.4 * average exceeds the greatest power of two below m.
TimesPointSeven(a) ==
    LET m == (a * 7) \div 10
    IN IF a > 0 /\ a % 10 = 0 /\ 4 * a > 10 * PowerOfTwoBelow(m, 1)
       THEN m - 1 ELSE m

\* line 400: avgCustomSegmentDuration * 1.3 converted to uint16_t.  The
\* constant 1.3 is the double just above 13/10: the truncated product is
\* the whole part of 13/10 of the average.
TimesOnePointThree(a) == (a * 13) \div 10

\* lines 393-407: the duration of custom segment n, for the draw r
CustomDuration(n, total, avgCustomSegmentDuration, remaining, r) ==
    IF n = total - 2 THEN remaining
    ELSE LET minDuration == Uint16(TimesPointSeven(avgCustomSegmentDuration))
             maxDuration == Uint16(TimesOnePointThree(avgCustomSegmentDuration))
             drawn == randomInt(minDuration, maxDuration, r)
             limit == remaining - (total - n - 2) * 60
         IN IF drawn > limit THEN Uint16(limit) ELSE drawn

constrain(x, low, high) == IF x < low THEN low ELSE IF x > high THEN high ELSE x

\* lines 413-439: the power profile of a custom segment, for the interval
\* type and the draws k1, k2
CustomPowerLow(intervalType, k1) ==
    constrain(CASE intervalType = 0 -> randomFloat(Ratio(70), Ratio(105), k1)
                []   intervalType = 1 -> randomFloat(Ratio(60), Ratio(85), k1)
                []   intervalType = 2 -> randomFloat(Ratio(110), Ratio(130), k1)
                []   OTHER -> randomFloat(Ratio(50), Ratio(75), k1),
              Ratio(30), Ratio(150))

CustomPowerHigh(intervalType, k1, k2) ==
    LET low == CASE intervalType = 0 -> randomFloat(Ratio(70), Ratio(105), k1)
                 []   intervalType = 1 -> randomFloat(Ratio(60), Ratio(85), k1)
                 []   intervalType = 2 -> randomFloat(Ratio(110), Ratio(130), k1)
                 []   OTHER -> randomFloat(Ratio(50), Ratio(75), k1)
    IN constrain(CASE intervalType = 0 -> low + randomFloat(0 - Ratio(2), Ratio(2), k2)
                   []   intervalType = 1 -> low + randomFloat(Ratio(15), Ratio(35), k2)
                   []   OTHER -> low + randomFloat(0 - Ratio(5), Ratio(5), k2),
                 Ratio(30), Ratio(150))

\* lines 390-444: one iteration of the loop over the custom segments
GenerateWorkoutSegment ==
    /\ pc = "segments"
    /\ version = "v0245"
    /\ i < totalWorkoutSegments - 1
    /\ LET avg == segmentDuration
           minDuration == Uint16(TimesPointSeven(avg))
           maxDuration == Uint16(TimesOnePointThree(avg))
       IN \E r \in DurationDraws(minDuration, maxDuration), d \in IntervalDraws :
             LET duration == CustomDuration(i, totalWorkoutSegments, avg, remainingDuration, r)
             IN /\ workout' = [workout EXCEPT ![i + 1] =
                                  [duration |-> duration,
                                   powerLow |-> CustomPowerLow(d[1], d[2]),
                                   powerHigh |-> CustomPowerHigh(d[1], d[2], d[3])]]
                /\ remainingDuration' = Uint16(remainingDuration - duration)
    /\ i' = Uint8(i + 1)
    /\ UNCHANGED <<manualVars, powerMultiplier, sinkVars, simpleVars>>
    /\ UNCHANGED <<config, feasVars, pc, segmentDuration, segmentPowers, totalWorkoutSegments,
                   totalWorkoutDuration, playVars>>

\* lines 446-471: the cooldown, written over the last element of the array
GenerateWorkoutFinish ==
    /\ pc = "segments"
    /\ version = "v0245"
    /\ ~(i < totalWorkoutSegments - 1)
    /\ workout' = [workout EXCEPT ![totalWorkoutSegments] =
                      [duration |-> 600, powerLow |-> Ratio(70), powerHigh |-> Ratio(30)]]
    /\ pc' = "setup"
    /\ UNCHANGED <<manualVars, powerMultiplier, sinkVars, simpleVars>>
    /\ UNCHANGED <<config, feasVars, i, segmentDuration, remainingDuration, segmentPowers,
                   totalWorkoutSegments, totalWorkoutDuration, playVars>>

\* setup(), lines 542-543 and 603-604, and startWorkout(), lines 634-643
SetupWorkout ==
    /\ pc = "setup"
    /\ version = "v0245"
    /\ UNCHANGED totalWorkoutDuration
    /\ StartWorkout

-----------------------------------------------------------------------------
(* part_003: generateCustomWorkout with the W'bal feasibility check *)

START_BOUNDARY_POWER == 12000
END_BOUNDARY_POWER == 7600
CRITICAL_POWER_RATIO == 10600
W_PRIME_JOULES == 30000
MIN_POWER_RATIO == 3000
TAU_CONSTANT_A == 546
TAU_CONSTANT_B == 316
FIXED_START_SEGMENTS == 11
FIXED_END_SEGMENTS == 7

Segment(d, low, high) == [duration |-> d, powerLow |-> low, powerHigh |-> high]

fixedStartSegments ==
    << Segment(110, 5000, 5600), Segment(231, 5600, 0), Segment(65, 0, 5100),
       Segment(285, 5100, 0), Segment(74, 0, 12700), Segment(120, 12700, 6700),
       Segment(89, 6700, 4600), Segment(78, 4600, 11000), Segment(89, 11000, 11400),
       Segment(62, 11400, 12700), Segment(188, 12700, START_BOUNDARY_POWER) >>

fixedEndSegments ==
    << Segment(491, END_BOUNDARY_POWER, 7200), Segment(179, 7200, 8100),
       Segment(415, 8100, 9300), Segment(406, 9300, 8600), Segment(178, 8600, 9500),
       Segment(107, 9500, 9500), Segment(71, 9500, 0) >>

\* e^(-f / 10000) in 1/10000 for 0 <= f < 10000: the alternating series
ExpNegFraction(f) ==
    LET t2 == (f * f) \div (2 * Unit)
        t3 == (t2 * f) \div (3 * Unit)
        t4 == (t3 * f) \div (4 * Unit)
        t5 == (t4 * f) \div (5 * Unit)
        t6 == (t5 * f) \div (6 * Unit)
        t7 == (t6 * f) \div (7 * Unit)
        t8 == (t7 * f) \div (8 * Unit)
    IN Unit - f + t2 - t3 + t4 - t5 + t6 - t7 + t8

RECURSIVE ExpNegWhole(_)
\* e^(-n) in 1/10000 for a natural number n
ExpNegWhole(n) == IF n = 0 THEN Unit ELSE (ExpNegWhole(n - 1) * 3679) \div Unit

\* exp(-x / 10000) in 1/10000, for x >= 0
ExpNeg(x) ==
    IF x >= 10 * Unit THEN 0
    ELSE (ExpNegWhole(x \div Unit) * ExpNegFraction(x % Unit)) \div Unit

\* calculateWbalChange, lines 141-155, in joules
calculateWbalChange(powerRatio, duration) ==
    IF powerRatio <= CRITICAL_POWER_RATIO
    THEN LET dcp == CRITICAL_POWER_RATIO - powerRatio
             \* tau in 1/10000 s: 546 * exp(-316 * dcp) + 0.01
             tau == TAU_CONSTANT_A * ExpNeg(TAU_CONSTANT_B * dcp) + 100
             decay == IF duration * Unit >= 10 * tau THEN 0
                      ELSE ExpNeg(Fraction4(duration * Unit, tau))
         IN (W_PRIME_JOULES * (Unit - decay)) \div Unit
    ELSE 0 - ((powerRatio - CRITICAL_POWER_RATIO) * duration) \div 40

\* isSegmentFeasible, lines 158-172: FTP * excess ratio * duration joules of
\* worst-case depletion must leave more than 20% of W'
isSegmentFeasible(powerStart, powerEnd, duration, wbal) ==
    LET maxPower == IF powerStart > powerEnd THEN powerStart ELSE powerEnd
    IN \/ maxPower <= CRITICAL_POWER_RATIO
       \/ 40 * (wbal - W_PRIME_JOULES \div 5) > (maxPower - CRITICAL_POWER_RATIO) * duration

\* lines 496: sqrt(CUSTOM_TARGET_TSS * 3600 / (targetDurationSeconds * 100))
targetAverageIF == Sqrt4(Quotient4(CUSTOM_TARGET_TSS * 36, CUSTOM_DURATION_MINUTES * 60 * Unit))

\* lines 567-579: the sampling bounds for the boundary after a segment of the
\* given duration
lowerBound == Max(MIN_POWER_RATIO, (targetAverageIF * 6) \div 10)

upperBound(duration) ==
    LET upper == (targetAverageIF * 14) \div 10
    IN IF duration > 600 THEN Min(upper, (CRITICAL_POWER_RATIO * 11) \div 10)
       ELSE IF duration > 300 THEN Min(upper, (CRITICAL_POWER_RATIO * 12) \div 10)
       ELSE upper

\* an element of segmentPowers that no attempt has assigned
Unassigned == 0 - 1

\* what unassigned malloc memory may hold, as a ratio
GarbagePowers == {0, 16000}

\* how many of the first duration draws, and of the first boundaries of an
\* attempt, the model varies; the later draws are the least value
VariedDurations == 2
VariedBoundaries == 2

\* lines 472-531: the segment count, the fixed segments, the duration budget
FeasibleStart ==
    /\ pc = "generate"
    /\ version = "v0232"
    /\ \E r \in {0, Max(0, MAX_CUSTOM_SEGMENTS - 15)} :
          LET n == Uint8(randomInt(15, MAX_CUSTOM_SEGMENTS, r))
          IN /\ numCustomSegments' = n
             /\ totalWorkoutSegments' = Uint8(FIXED_START_SEGMENTS + n + FIXED_END_SEGMENTS)
             /\ workout' = fixedStartSegments \o [j \in 1 .. n |-> UnsetSegment]
                             \o fixedEndSegments
    /\ segmentDurations' = << >>
    /\ remainingDuration' = CUSTOM_DURATION_MINUTES * 60
    /\ i' = 0
    /\ pc' = "durations"
    /\ UNCHANGED <<manualVars, powerMultiplier, sinkVars, simpleVars>>
    /\ UNCHANGED <<config, segmentDuration, segmentPowers, totalWorkoutDuration, playVars,
                   currentWbal, attempts, powerAttempts, candidatePower, allSegmentsFeasible, warned>>

\* lines 533-541: one duration.  remainingDuration is a uint32_t: a negative
\* value here stands for that value plus 2^32.
FeasibleDuration ==
    /\ pc = "durations"
    /\ i < numCustomSegments - 1
    /\ LET minDuration == 120
           remainingForOthers == (numCustomSegments - i - 1) * minDuration
           availableDuration == remainingDuration - remainingForOthers
           maxDuration == IF availableDuration < 0 \/ availableDuration > 1800
                          THEN 1800 ELSE Uint16(availableDuration)
       IN \E r \in (IF i < VariedDurations
                    THEN {0, Max(0, maxDuration - minDuration)} ELSE {0}) :
             LET d == randomInt(minDuration, maxDuration, r)
             IN /\ segmentDurations' = Append(segmentDurations, d)
                /\ remainingDuration' = remainingDuration - d
    /\ i' = Uint8(i + 1)
    /\ UNCHANGED <<manualVars, powerMultiplier, sinkVars, simpleVars>>
    /\ UNCHANGED <<config, pc, segmentDuration, segmentPowers, workout, totalWorkoutSegments,
                   totalWorkoutDuration, playVars, numCustomSegments, currentWbal,
                   attempts, powerAttempts, candidatePower, allSegmentsFeasible, warned>>

\* lines 543-552: the last duration, the first boundary
FeasibleDurationsDone ==
    /\ pc = "durations"
    /\ ~(i < numCustomSegments - 1)
    /\ segmentDurations' = Append(segmentDurations, Uint16(remainingDuration))
    /\ segmentPowers' = [j \in 1 .. numCustomSegments + 1 |->
                            IF j = 1 THEN START_BOUNDARY_POWER ELSE Unassigned]
    /\ currentWbal' = W_PRIME_JOULES
    /\ attempts' = 0
    /\ pc' = "attempt"
    /\ UNCHANGED <<manualVars, powerMultiplier, sinkVars, simpleVars>>
    /\ UNCHANGED <<config, i, segmentDuration, remainingDuration, workout,
                   totalWorkoutSegments, totalWorkoutDuration, playVars,
                   numCustomSegments, powerAttempts, candidatePower, allSegmentsFeasible, warned>>

\* lines 554-562: an attempt begins
FeasibleAttempt ==
    /\ pc = "attempt"
    /\ attempts' = Uint8(attempts + 1)
    /\ currentWbal' = W_PRIME_JOULES
    /\ allSegmentsFeasible' = TRUE
    /\ i' = 1
    /\ powerAttempts' = 0
    /\ pc' = "sample"
    /\ UNCHANGED candidatePower
    /\ UNCHANGED <<manualVars, powerMultiplier, sinkVars, simpleVars>>
    /\ UNCHANGED <<config, segmentDuration, remainingDuration, segmentPowers, workout,
                   totalWorkoutSegments, totalWorkoutDuration, playVars,
                   numCustomSegments, segmentDurations, warned>>

\* lines 564-601: one candidate for boundary i; it ends the inner loop when
\* it is feasible or the 20th
FeasibleSample ==
    /\ pc = "sample"
    /\ i < numCustomSegments
    /\ \E k \in (IF i <= VariedBoundaries THEN {0, 9999} ELSE {0}) :
          LET duration == At(segmentDurations, i - 1)
              previous == At(segmentPowers, i - 1)
              target == randomFloat(lowerBound, upperBound(duration), k)
              tried == Uint8(powerAttempts + 1)
              feasible == isSegmentFeasible(previous, target, duration, currentWbal)
              avgPower == (previous + target) \div 2
              wbal == currentWbal + calculateWbalChange(avgPower, duration)
          IN /\ candidatePower' = target
             /\ IF ~feasible /\ tried < 20
                THEN /\ powerAttempts' = tried
                     /\ UNCHANGED <<pc, i, segmentPowers, currentWbal, allSegmentsFeasible>>
                ELSE IF tried >= 20
                THEN /\ powerAttempts' = tried
                     /\ allSegmentsFeasible' = FALSE
                     /\ pc' = "attempted"
                     /\ UNCHANGED <<i, segmentPowers, currentWbal>>
                ELSE /\ segmentPowers' = [segmentPowers EXCEPT ![i + 1] = target]
                     /\ currentWbal' = Max(0, Min(W_PRIME_JOULES, wbal))
                     /\ i' = Uint8(i + 1)
                     /\ powerAttempts' = 0
                     /\ pc' = IF i + 1 < numCustomSegments THEN "sample" ELSE "attempted"
                     /\ UNCHANGED allSegmentsFeasible
    /\ UNCHANGED <<manualVars, powerMultiplier, sinkVars, simpleVars>>
    /\ UNCHANGED <<config, segmentDuration, remainingDuration, workout, totalWorkoutSegments,
                   totalWorkoutDuration, playVars, numCustomSegments, segmentDurations,
                   attempts, warned>>

\* FeasibleAttempted without the bound of 50 attempts
FeasibleAttemptedUnbounded ==
    /\ pc = "attempted"
    /\ pc' = IF allSegmentsFeasible THEN "finish" ELSE "attempt"
    /\ UNCHANGED <<manualVars, powerMultiplier, sinkVars, simpleVars>>
    /\ UNCHANGED <<config, genVars, playVars, feasVars>>

\* lines 603-609: the attempt is over; another one begins unless this one was
\* feasible or the 50th
FeasibleAttempted ==
    /\ pc = "attempted"
    /\ pc' = IF allSegmentsFeasible \/ ~(attempts < 50) THEN "finish" ELSE "attempt"
    /\ UNCHANGED <<manualVars, powerMultiplier, sinkVars, simpleVars>>
    /\ UNCHANGED <<config, genVars, playVars, feasVars>>

\* segmentPowers with its unassigned elements read as the value g
Assigned(powers, g) == [j \in 1 .. Len(powers) |-> IF powers[j] = Unassigned THEN g ELSE powers[j]]

\* lines 618-623 and 650-654: the custom segments from durations and boundaries
WithCustomSegments(w, durations, powers, n) ==
    [j \in 1 .. Len(w) |->
        IF j > FIXED_START_SEGMENTS /\ j <= FIXED_START_SEGMENTS + n
        THEN Segment(durations[j - FIXED_START_SEGMENTS],
                     powers[j - FIXED_START_SEGMENTS],
                     powers[j - FIXED_START_SEGMENTS + 1])
        ELSE w[j]]

\* lines 641-647: the interior boundaries scaled and clamped
NormalizedFeasible(powers, n, factor) ==
    [j \in 1 .. Len(powers) |->
        IF j >= 2 /\ j <= n
        THEN Max(MIN_POWER_RATIO, Min(Ratio(150), (powers[j] * factor) \div Unit))
        ELSE powers[j]]

\* lines 611-684: the warning, the last boundary, the custom segments and the
\* normalization pass
FeasibleFinish ==
    /\ pc = "finish"
    /\ warned' = (attempts >= 50)
    /\ \E g \in GarbagePowers :
          LET n == numCustomSegments
              powers == [Assigned(segmentPowers, g) EXCEPT ![n + 1] = END_BOUNDARY_POWER]
              generated == WithCustomSegments(workout, segmentDurations, powers, n)
              currentTSS == SumTSS(generated, FIXED_START_SEGMENTS,
                                   FIXED_START_SEGMENTS + n - 1)
              normalized == NormalizedFeasible(powers, n,
                                normalizationFactor(CUSTOM_TARGET_TSS, currentTSS))
          IN IF currentTSS > 0
             THEN /\ segmentPowers' = normalized
                  /\ workout' = WithCustomSegments(workout, segmentDurations, normalized, n)
             ELSE /\ segmentPowers' = powers
                  /\ workout' = generated
    /\ pc' = "setup"
    /\ UNCHANGED <<manualVars, powerMultiplier, sinkVars, simpleVars>>
    /\ UNCHANGED <<config, i, segmentDuration, remainingDuration, totalWorkoutSegments,
                   totalWorkoutDuration, playVars, numCustomSegments, segmentDurations,
                   currentWbal, attempts, powerAttempts, candidatePower, allSegmentsFeasible>>

\* setup(), lines 699-704 and 770, and startWorkout(), lines 797-806
SetupFeasible ==
    /\ pc = "setup"
    /\ version = "v0232"
    /\ totalWorkoutDuration' = totalWorkoutDuration + SumDurations(workout, totalWorkoutSegments)
    /\ StartWorkout

-----------------------------------------------------------------------------
(* Playback: loop(), updateValues() and sendNotifications() *)

\* what a read of workout[currentSegment].duration past the end of the
\* array may return
GarbageDurations == {0, 65535}

\* the progress 0.0f / 0.0f of a segment of duration 0
NaN == 0 - 1

\* what the conversion of a NaN to uint8_t and to uint16_t may return
NaNHeartRates == {0, 255}
NaNPowers == {0, 65535}

\* a recovery that loses a tenth of the way to 90 every second
RecoveryHeartRateHasty(final, recoveryElapsed) ==
    IF recoveryElapsed < 30
    THEN Uint8(final - ((final - 90) * recoveryElapsed) \div 30)
    ELSE 90

\* a recovery that rounds to the nearest beat
RecoveryHeartRateRounded(final, recoveryElapsed) ==
    IF recoveryElapsed < 300
    THEN Uint8(final - ((final - 90) * recoveryElapsed + 150) \div 300)
    ELSE 90

\* lines 720-732: the heart rate of the recovery phase
RecoveryHeartRate(final, recoveryElapsed) ==
    IF recoveryElapsed < 300
    THEN Uint8(final - ((final - 90) * recoveryElapsed) \div 300)
    ELSE 90

\* lines 756-765: the interpolated multiplier, floored at 0.30; a segment of
\* duration 0 is only ever read with segmentElapsed = 0
PowerMultiplier(segment, segmentElapsed) ==
    IF segment.duration = 0 THEN NaN
    ELSE Max(Ratio(30),
             segment.powerLow
               + ((segment.powerHigh - segment.powerLow) * segmentElapsed) \div segment.duration)

\* a heart rate that reaches HR_MAX at 1.20 already
HeartRateForSteep(ratio) ==
    Max(90, Min(180, HR_BASE + ((ratio - Ratio(50)) * (HR_MAX - HR_BASE))
                                  \div (Ratio(120) - Ratio(50))))

\* lines 779-783: HR_BASE at 0.50, HR_MAX at 1.27, constrained to 90..180
\* and truncated.  The double value is rounded to float (heartRateFloat)
\* before the truncation, so a whole number is reached exactly.
HeartRateFor(ratio) ==
    Max(90, Min(180, HR_BASE + ((ratio - Ratio(50)) * (HR_MAX - HR_BASE))
                                  \div (Ratio(127) - Ratio(50))))

\* line 783 for a multiplier that may be NaN
HeartRatesFor(ratio) == IF ratio = NaN THEN NaNHeartRates ELSE {HeartRateFor(ratio)}

\* lines 770-777: the power reported, for the fluctuation draw k
FluctuatedPower(basePower, k) ==
    LET fluctuated == Uint16((basePower * (Unit + randomFloat(0 - 200, 200, k))) \div Unit)
    IN Max((FTP * 25) \div 100, fluctuated)

\* lines 767-777
PowerFor(ratio, k) == FluctuatedPower(Uint16((FTP * ratio) \div Unit), k)

\* lines 767-777 for a multiplier that may be NaN
PowersFor(ratio, k) ==
    IF ratio = NaN THEN {FluctuatedPower(basePower, k) : basePower \in NaNPowers}
    ELSE {PowerFor(ratio, k)}

\* part_003 line 872: the power reported, without fluctuation, for a
\* multiplier that may be NaN
PlainPowersFor(ratio) ==
    IF ratio = NaN THEN NaNPowers ELSE {Uint16((FTP * ratio) \div Unit)}

\* loop(), lines 672-681: the time at which the next tick fires
NextTickTime ==
    IF ElapsedMoreThan(millis, lastUpdate, 1000) THEN millis ELSE TimeAdd(lastUpdate, tickGap)

\* the last tick's workoutElapsed
WorkoutElapsed == ElapsedSeconds(lastUpdate, workoutStartTime)

\* a finished session whose crank keeps turning
TickFinishedCranking(currentTime) ==
    /\ workoutFinished' = TRUE
    /\ cooldownStartTime' = IF workoutFinished THEN cooldownStartTime ELSE currentTime
    /\ finalHeartRate' = IF workoutFinished THEN finalHeartRate ELSE heartRate
    /\ heartRate' = RecoveryHeartRate(finalHeartRate',
                                      ElapsedSeconds(currentTime, cooldownStartTime'))
    /\ power' = 0
    /\ cadence' = 0
    /\ crankRevolutions' = Uint16(crankRevolutions + 1)
    /\ UNCHANGED <<segmentStartTime, currentSegment, cadenceIncreasing,
                   lastCrankEventTime, powerMultiplier>>

\* lines 711-735: the session is over
TickFinished(currentTime) ==
    /\ workoutFinished' = TRUE
    /\ cooldownStartTime' = IF workoutFinished THEN cooldownStartTime ELSE currentTime
    /\ finalHeartRate' = IF workoutFinished THEN finalHeartRate ELSE heartRate
    /\ heartRate' = RecoveryHeartRate(finalHeartRate',
                                      ElapsedSeconds(currentTime, cooldownStartTime'))
    /\ power' = 0
    /\ cadence' = 0
    /\ UNCHANGED <<segmentStartTime, currentSegment, cadenceIncreasing,
                   crankRevolutions, lastCrankEventTime, powerMultiplier>>

\* a cadence that turns round one tick after the bound
TickCadenceOvershoot ==
    IF workoutFinished
    THEN UNCHANGED <<cadence, cadenceIncreasing, crankRevolutions, lastCrankEventTime>>
    ELSE LET c == IF cadenceIncreasing THEN Uint8(cadence + 1) ELSE Uint8(cadence - 1)
         IN /\ cadence' = c
            /\ cadenceIncreasing' = IF cadenceIncreasing THEN ~(c > 98) ELSE c < 90
            /\ IF c > 0
               THEN /\ crankRevolutions' = Uint16(crankRevolutions + 1)
                    /\ lastCrankEventTime' = (lastCrankEventTime + Uint16((60 * 1024) \div c)) % 65536
               ELSE UNCHANGED <<crankRevolutions, lastCrankEventTime>>

\* a cadence and a crank that move whether or not the session is over
TickCadenceUnguarded ==
    LET c == IF cadenceIncreasing THEN Uint8(cadence + 1) ELSE Uint8(cadence - 1)
    IN /\ cadence' = c
       /\ cadenceIncreasing' = IF cadenceIncreasing THEN ~(c >= 98) ELSE c <= 90
       /\ IF c > 0
          THEN /\ crankRevolutions' = Uint16(crankRevolutions + 1)
               /\ lastCrankEventTime' = (lastCrankEventTime + Uint16((60 * 1024) \div c)) % 65536
          ELSE UNCHANGED <<crankRevolutions, lastCrankEventTime>>

\* lines 785-804: cadence and crank data
TickCadence ==
    IF workoutFinished
    THEN UNCHANGED <<cadence, cadenceIncreasing, crankRevolutions, lastCrankEventTime>>
    ELSE LET c == IF cadenceIncreasing THEN Uint8(cadence + 1) ELSE Uint8(cadence - 1)
         IN /\ cadence' = c
            /\ cadenceIncreasing' = IF cadenceIncreasing THEN ~(c >= 98) ELSE c <= 90
            /\ IF c > 0
               THEN /\ crankRevolutions' = Uint16(crankRevolutions + 1)
                    /\ lastCrankEventTime' = (lastCrankEventTime + Uint16((60 * 1024) \div c)) % 65536
               ELSE UNCHANGED <<crankRevolutions, lastCrankEventTime>>

\* lines 737-783 (part_001:689-735, part_003:841-877): power and heart rate
\* from the plan; part_003 draws no fluctuation
TickAuto(currentTime) ==
    \E read \in (IF currentSegment < totalWorkoutSegments
                 THEN {At(workout, currentSegment).duration} ELSE GarbageDurations),
       k \in (IF version = "v0232" THEN {0} ELSE FluctuationDraws) :
       LET segmentElapsed0 == ElapsedSeconds(currentTime, segmentStartTime)
           advance == segmentElapsed0 >= read
           segmentElapsed == IF advance THEN 0 ELSE segmentElapsed0
           current == IF advance THEN Uint8(currentSegment + 1) ELSE currentSegment
           multiplier == IF current < totalWorkoutSegments
                         THEN PowerMultiplier(At(workout, current), segmentElapsed)
                         ELSE Ratio(30)
       IN /\ currentSegment' = current
          /\ segmentStartTime' = IF advance THEN currentTime ELSE segmentStartTime
          /\ powerMultiplier' = multiplier
          /\ power' \in (IF version = "v0232" THEN PlainPowersFor(multiplier)
                         ELSE PowersFor(multiplier, k))
          /\ heartRate' \in HeartRatesFor(multiplier)

\* a manual mode that fluctuates like the auto mode
TickManualFluctuating ==
    /\ powerMultiplier' = (manualTargetPower' * Unit) \div FTP
    /\ \E k \in FluctuationDraws : power' = PowerFor(powerMultiplier', k)
    /\ heartRate' = HeartRateFor(powerMultiplier')
    /\ UNCHANGED <<currentSegment, segmentStartTime>>

\* part_001:678-685: power and heart rate from the manual target
TickManual ==
    /\ power' = manualTargetPower'
    /\ powerMultiplier' = (manualTargetPower' * Unit) \div FTP
    /\ heartRate' = HeartRateFor(powerMultiplier')
    /\ UNCHANGED <<currentSegment, segmentStartTime>>

\* lines 737-805 (part_001:678-757): a tick of the running session
TickRunning(currentTime) ==
    /\ IF TRAINING_MODE = "manual" THEN TickManual ELSE TickAuto(currentTime)
    /\ TickCadence
    /\ UNCHANGED <<workoutFinished, cooldownStartTime, finalHeartRate>>

\* lines 704-805: updateValues() at currentTime
updateValues(currentTime) ==
    IF ElapsedSeconds(currentTime, workoutStartTime) >= totalWorkoutDuration
    THEN TickFinished(currentTime)
    ELSE TickRunning(currentTime)

\* records with the high byte first
sendNotificationsBigEndian ==
    /\ powerData' = <<0, 0, (power' \div 256) % 256, power' % 256>>
    /\ cadenceData' = <<2, (crankRevolutions' \div 256) % 256, crankRevolutions' % 256,
                        (lastCrankEventTime' \div 256) % 256, lastCrankEventTime' % 256>>
    /\ heartData' = <<0, heartRate'>>

\* lines 807-841: the three records of the new values
sendNotifications ==
    /\ powerData' = <<0, 0, power' % 256, (power' \div 256) % 256>>
    /\ cadenceData' = <<2, crankRevolutions' % 256, (crankRevolutions' \div 256) % 256,
                        lastCrankEventTime' % 256, (lastCrankEventTime' \div 256) % 256>>
    /\ heartData' = <<0, heartRate'>>

\* loop(), lines 676-680: the records go out while a device is connected
Notify ==
    IF deviceConnected
    THEN sendNotifications
    ELSE powerData' = << >> /\ cadenceData' = << >> /\ heartData' = << >>

\* the rider's hand: a button is pressed CommandPeriod ms after the press
\* before it (the first one CommandPeriod ms into the session), one button at
\* a time, and is held for one of HoldTimes: inside and outside the window
\* of 50..200 ms
CommandPeriod == 300
HoldTimes == {60, 220}

\* contacts that bounce: a button released HoldTimes ms after its press may
\* read pressed again BounceTimes[1] ms after that press, and is released
\* for good BounceTimes[2] ms after it
BounceTimes == <<80, 120>>

\* a is earlier than b (no wrap of the clock in between)
Before(a, b) == a[1] < b[1] \/ (a[1] = b[1] /\ a[2] < b[2])

\* the time of the last press
LastPress ==
    IF lastButtonPressDown = <<0, 0>> /\ lastButtonPressUp = <<0, 0>> THEN workoutStartTime
    ELSE IF Before(lastButtonPressDown, lastButtonPressUp) THEN lastButtonPressUp
    ELSE lastButtonPressDown

\* ms without a press after which the hand has been at rest
RestMillis == 2000

\* the time from which the next press is counted: the last press, or the
\* last tick when the hand comes back from a rest
PreviousPress ==
    IF /\ buttonDownLastState = HIGH /\ buttonUpLastState = HIGH
       /\ ElapsedMoreThan(millis, LastPress, RestMillis)
    THEN lastUpdate
    ELSE LastPress

\* the times at which the pins can next read <<buttonDownState, buttonUpState>>
PinChangeTimes(buttonDownState, buttonUpState) ==
    IF buttonDownLastState = HIGH /\ buttonUpLastState = HIGH
    THEN IF buttonDownState = buttonUpState THEN {}
         ELSE {TimeAdd(PreviousPress, CommandPeriod)}
              \cup (IF /\ contactBounce
                       /\ PreviousPress = (IF buttonDownState = LOW
                                           THEN lastButtonPressDown
                                           ELSE lastButtonPressUp)
                    THEN {TimeAdd(PreviousPress, BounceTimes[1])}
                    ELSE {})
    ELSE IF buttonDownState = LOW \/ buttonUpState = LOW THEN {}
    ELSE {TimeAdd(PreviousPress, hold) :
             hold \in HoldTimes \cup (IF contactBounce THEN {BounceTimes[2]} ELSE {})}

\* the pin changes that are still to come
PinChanges ==
    {t \in UNION {PinChangeTimes(d, u) : d \in {HIGH, LOW}, u \in {HIGH, LOW}} :
        Before(millis, t)}

\* an iteration at time t comes before a pin change that is still to come:
\* the rider's hand does not rest
BeforePinChange(t) ==
    TRAINING_MODE = "manual" => \E c \in PinChanges : Before(t, c)

\* seconds of a manual session that are followed, with buttons whose
\* contacts are clean and with buttons whose contacts bounce
ManualSeconds == 10
BounceSeconds == 3

\* the last second of the session that is followed
PlayLimit ==
    IF TRAINING_MODE = "manual"
    THEN (IF contactBounce THEN BounceSeconds ELSE ManualSeconds)
    ELSE totalWorkoutDuration + 300 + FinalSeconds

\* the ticks of the final state that IdleTicks runs through: 4204 * 1001 *
\* 1020 ms, a whole number of ticks for either spacing of TickGaps, some
\* 2599 s short of a full turn of the 32-bit clock
IdleTime == <<4292368, 80>>

\* seconds that are followed after workoutElapsed has wrapped round
ResumedSeconds == 3

\* seconds of a session of part_003 that are followed: the fixed segment 0
\* and segment 1 (from 0.56 at 110 s to 0.0 at 341 s) until its ratio has
\* fallen below MIN_POWER_RATIO, which it does 217 s into the session
FeasiblePlaySeconds == 230

\* seconds of a manual session that are followed before its end, after its
\* end, and after workoutElapsed has wrapped round
ManualEndSeconds == 2

\* the tick at time t is followed: the session, its recovery and the first
\* seconds of the final state, then the ticks from the end of IdleTicks until
\* workoutElapsed has wrapped round and ResumedSeconds more
Followed(t) ==
    LET elapsed == ElapsedSeconds(t, workoutStartTime)
    IN IF TRAINING_MODE = "manual"
       THEN IF workoutFinished /\ elapsed < totalWorkoutDuration
            THEN elapsed <= ManualEndSeconds
            ELSE \/ elapsed <= PlayLimit
                 \/ /\ elapsed >= totalWorkoutDuration - ManualEndSeconds
                    /\ elapsed < totalWorkoutDuration + ManualEndSeconds
       ELSE IF version = "v0232" THEN elapsed <= FeasiblePlaySeconds
       ELSE IF workoutFinished /\ elapsed < totalWorkoutDuration
            THEN elapsed <= ResumedSeconds
       ELSE elapsed <= PlayLimit \/ elapsed >= IdleTime[1]

\* loop() finds more than 1000 ms passed since the last tick (line 672) and
\* updateValues() does not return at once (line 706)
TickDue ==
    /\ pc = "loop"
    /\ version \in {"v0235", "v0245", "v0232"}
    /\ workoutActive
    /\ Followed(NextTickTime)
    /\ BeforePinChange(NextTickTime)

\* loop() when more than 1000 ms have passed since the last tick and the
\* buttons read as they did
Tick ==
    /\ TickDue
    /\ UNCHANGED <<manualVars, deviceConnected, simpleVars>>
    /\ LET currentTime == NextTickTime
       IN /\ millis' = currentTime
          /\ lastUpdate' = currentTime
          /\ updateValues(currentTime)
    /\ Notify
    /\ UNCHANGED <<config, feasVars, pc, genVars, tickGap, workoutStartTime, workoutActive>>

\* loop(), 4204 * 1001 * 1020 ms of it in the final state of the session:
\* every one of these ticks takes the branch of lines 711-735 with
\* recoveryElapsed >= 300 and leaves heartRate = 90, power = 0, cadence = 0
IdleTicks ==
    /\ pc = "loop"
    /\ version = "v0235"
    /\ workoutActive /\ workoutFinished
    /\ millis = lastUpdate
    /\ ElapsedSeconds(lastUpdate, workoutStartTime) >= totalWorkoutDuration
    /\ ElapsedSeconds(lastUpdate, workoutStartTime) < WrapS - IdleTime[1] - 1
    /\ ElapsedSeconds(lastUpdate, cooldownStartTime) >= 300
    /\ millis' = TimePlus(lastUpdate, IdleTime)
    /\ lastUpdate' = millis'
    /\ heartRate' = 90
    /\ power' = 0
    /\ cadence' = 0
    /\ UNCHANGED <<crankRevolutions, lastCrankEventTime>>
    /\ Notify
    /\ UNCHANGED <<config, pc, genVars, feasVars, manualVars, simpleVars, powerMultiplier,
                   deviceConnected, tickGap, workoutStartTime, segmentStartTime,
                   cooldownStartTime, currentSegment, workoutActive, workoutFinished,
                   finalHeartRate, cadenceIncreasing>>

\* a - b < n for an n of at most 1000 (milliseconds)
ElapsedLessThan(a, b, n) ==
    LET d == TimeDiff(a, b) IN d[1] = 0 /\ d[2] < n

\* buttons without the limit of 50 W
handleManualButtonsUnlimited(currentTime, buttonDownState, buttonUpState) ==
    LET pressedDown == buttonDownLastState = HIGH /\ buttonDownState = LOW
        releasedDown == buttonDownLastState = LOW /\ buttonDownState = HIGH
        validDown == /\ releasedDown
                     /\ ElapsedMoreThan(currentTime, lastButtonPressDown, 50)
                     /\ ElapsedLessThan(currentTime, lastButtonPressDown, BUTTON_DEBOUNCE_MS)
        decreased == IF validDown
                     THEN manualTargetPower - MANUAL_POWER_STEP
                     ELSE manualTargetPower
        pressedUp == buttonUpLastState = HIGH /\ buttonUpState = LOW
        releasedUp == buttonUpLastState = LOW /\ buttonUpState = HIGH
        validUp == /\ releasedUp
                   /\ ElapsedMoreThan(currentTime, lastButtonPressUp, 50)
                   /\ ElapsedLessThan(currentTime, lastButtonPressUp, BUTTON_DEBOUNCE_MS)
    IN /\ lastButtonPressDown' =
              IF pressedDown /\ ElapsedMoreThan(currentTime, lastButtonPressDown, BUTTON_DEBOUNCE_MS)
              THEN currentTime ELSE lastButtonPressDown
       /\ buttonDownLastState' = buttonDownState
       /\ lastButtonPressUp' =
              IF pressedUp /\ ElapsedMoreThan(currentTime, lastButtonPressUp, BUTTON_DEBOUNCE_MS)
              THEN currentTime ELSE lastButtonPressUp
       /\ buttonUpLastState' = buttonUpState
       /\ manualTargetPower' =
              IF validUp /\ decreased < 500
              THEN Min(500, decreased + MANUAL_POWER_STEP)
              ELSE decreased

\* part_001:474-522, for the levels read from the two pins
handleManualButtons(currentTime, buttonDownState, buttonUpState) ==
    LET pressedDown == buttonDownLastState = HIGH /\ buttonDownState = LOW
        releasedDown == buttonDownLastState = LOW /\ buttonDownState = HIGH
        validDown == /\ releasedDown
                     /\ ElapsedMoreThan(currentTime, lastButtonPressDown, 50)
                     /\ ElapsedLessThan(currentTime, lastButtonPressDown, BUTTON_DEBOUNCE_MS)
        decreased == IF validDown /\ manualTargetPower > 50
                     THEN Max(50, manualTargetPower - MANUAL_POWER_STEP)
                     ELSE manualTargetPower
        pressedUp == buttonUpLastState = HIGH /\ buttonUpState = LOW
        releasedUp == buttonUpLastState = LOW /\ buttonUpState = HIGH
        validUp == /\ releasedUp
                   /\ ElapsedMoreThan(currentTime, lastButtonPressUp, 50)
                   /\ ElapsedLessThan(currentTime, lastButtonPressUp, BUTTON_DEBOUNCE_MS)
    IN /\ lastButtonPressDown' =
              IF pressedDown /\ ElapsedMoreThan(currentTime, lastButtonPressDown, BUTTON_DEBOUNCE_MS)
              THEN currentTime ELSE lastButtonPressDown
       /\ buttonDownLastState' = buttonDownState
       /\ lastButtonPressUp' =
              IF pressedUp /\ ElapsedMoreThan(currentTime, lastButtonPressUp, BUTTON_DEBOUNCE_MS)
              THEN currentTime ELSE lastButtonPressUp
       /\ buttonUpLastState' = buttonUpState
       /\ manualTargetPower' =
              IF validUp /\ decreased < 500
              THEN Min(500, decreased + MANUAL_POWER_STEP)
              ELSE decreased

\* part_001:607-632: loop() when a pin reads differently from the iteration
\* before, with the tick if it is due
ButtonPoll ==
    /\ pc = "loop"
    /\ version = "v0245"
    /\ TRAINING_MODE = "manual"
    /\ workoutActive
    /\ ~ElapsedMoreThan(millis, lastUpdate, 1000)
    /\ \E buttonDownState \in {HIGH, LOW}, buttonUpState \in {HIGH, LOW} :
          \E currentTime \in PinChangeTimes(buttonDownState, buttonUpState) :
             /\ Before(millis, currentTime)
             /\ ~ElapsedMoreThan(currentTime, lastUpdate, tickGap)
             /\ Followed(currentTime)
             /\ millis' = currentTime
             /\ handleManualButtons(currentTime, buttonDownState, buttonUpState)
             /\ IF ElapsedMoreThan(currentTime, lastUpdate, 1000)
                THEN /\ lastUpdate' = currentTime
                     /\ updateValues(currentTime)
                     /\ Notify
                ELSE UNCHANGED <<lastUpdate, segmentStartTime, cooldownStartTime,
                                 currentSegment, workoutFinished, finalHeartRate, power,
                                 cadence, cadenceIncreasing, heartRate, crankRevolutions,
                                 lastCrankEventTime, powerMultiplier, powerData,
                                 cadenceData, heartData>>
    /\ UNCHANGED <<config, feasVars, pc, genVars, tickGap, workoutStartTime, workoutActive,
                   deviceConnected, simpleVars>>

\* n * gap ms as a clock value
TicksTime(n, gap) ==
    LET ms == n * (gap - 1000) IN <<n + (ms \div 1000), ms % 1000>>

\* the number of ticks gap ms apart in less than d = <<s, ms>>
TicksWithin(d, gap) ==
    LET rest == (d[1] % gap) * 1000 + d[2]
        whole == (d[1] \div gap) * 1000 + (rest \div gap)
    IN IF rest % gap = 0 THEN whole - 1 ELSE whole

\* part_001:738-748 of a session that runs: one step of the cadence
CadenceStep(c, increasing) ==
    LET c1 == IF increasing THEN Uint8(c + 1) ELSE Uint8(c - 1)
    IN <<c1, IF increasing THEN ~(c1 >= 98) ELSE c1 <= 90>>

RECURSIVE Pedalled(_, _, _, _)
\* part_001:738-756 n times over: <<cadence, cadenceIncreasing,
\* lastCrankEventTime>>
Pedalled(c, increasing, t, n) ==
    IF n = 0 THEN <<c, increasing, t>>
    ELSE LET step == CadenceStep(c, increasing)
         IN Pedalled(step[1], step[2], (t + Uint16((60 * 1024) \div step[1])) % 65536, n - 1)

\* the cadence runs 91..98 and back to 90 in 16 ticks; the crank time of
\* one such turn
CadenceTurn == 16
TurnCrankTime == Pedalled(90, TRUE, 0, CadenceTurn)[3]

\* part_001:607-632, loop() with the buttons left alone from the first tick
\* of the session to the first tick of its last ManualEndSeconds: every
\* tick takes the branch of lines 678-685 with the same manualTargetPower
\* and steps the cadence and the crank (lines 738-757)
ManualRide ==
    /\ pc = "loop"
    /\ version = "v0245"
    /\ TRAINING_MODE = "manual"
    /\ workoutActive /\ ~workoutFinished
    /\ millis = lastUpdate
    /\ ElapsedSeconds(lastUpdate, workoutStartTime) = 0
    /\ buttonDownLastState = HIGH /\ buttonUpLastState = HIGH
    /\ lastButtonPressDown = <<0, 0>> /\ lastButtonPressUp = <<0, 0>>
    /\ cadence \in 90 .. 98 /\ (cadence = 90 => cadenceIncreasing)
    /\ (cadence = 98 => ~cadenceIncreasing)
    /\ LET left == TimeDiff(<<totalWorkoutDuration - ManualEndSeconds, 0>>,
                            TimeDiff(lastUpdate, workoutStartTime))
           n == TicksWithin(left, tickGap) + 1
           pedalled == Pedalled(cadence, cadenceIncreasing,
                                (lastCrankEventTime + (n \div CadenceTurn) * TurnCrankTime) % 65536,
                                n % CadenceTurn)
       IN /\ n > 0
          /\ millis' = TimePlus(lastUpdate, TicksTime(n, tickGap))
          /\ lastUpdate' = millis'
          /\ cadence' = pedalled[1]
          /\ cadenceIncreasing' = pedalled[2]
          /\ lastCrankEventTime' = pedalled[3]
          /\ crankRevolutions' = (crankRevolutions + n) % 65536
    /\ UNCHANGED manualVars
    /\ TickManual
    /\ Notify
    /\ UNCHANGED <<config, feasVars, pc, genVars, tickGap, workoutStartTime, workoutActive,
                   workoutFinished, cooldownStartTime, finalHeartRate, deviceConnected,
                   simpleVars>>

\* part_001:607-632, loop() with the buttons left alone after the session
\* has ended, up to the first tick at which workoutElapsed (line 650) has
\* turned round: the ticks before it take the branch of lines 653-675 and
\* leave power = 0 and cadence = 0, and the heart rate they write is
\* written again by that first tick
ManualRest ==
    /\ pc = "loop"
    /\ version = "v0245"
    /\ TRAINING_MODE = "manual"
    /\ workoutActive /\ workoutFinished
    /\ millis = lastUpdate
    /\ ElapsedSeconds(lastUpdate, workoutStartTime) >= totalWorkoutDuration
    /\ ~Followed(NextTickTime)
    /\ buttonDownLastState = HIGH /\ buttonUpLastState = HIGH
    /\ power = 0 /\ cadence = 0
    /\ UNCHANGED manualVars
    /\ LET left == TimeDiff(<<0, 0>>, TimeDiff(lastUpdate, workoutStartTime))
           n == TicksWithin(left, tickGap) + 1
           currentTime == TimePlus(lastUpdate, TicksTime(n, tickGap))
       IN /\ millis' = currentTime
          /\ lastUpdate' = currentTime
          /\ updateValues(currentTime)
    /\ Notify
    /\ UNCHANGED <<config, feasVars, pc, genVars, tickGap, workoutStartTime, workoutActive,
                   deviceConnected, simpleVars>>

\* MyServerCallbacks, lines 73-88
onConnect ==
    /\ pc = "loop"
    /\ ~deviceConnected
    /\ deviceConnected' = TRUE
    /\ UNCHANGED <<config, pc, genVars, playVars, feasVars, manualVars, powerMultiplier,
                   powerData, cadenceData, heartData, simpleVars>>

onDisconnect ==
    /\ pc = "loop"
    /\ deviceConnected
    /\ deviceConnected' = FALSE
    /\ UNCHANGED <<config, pc, genVars, playVars, feasVars, manualVars, powerMultiplier,
                   powerData, cadenceData, heartData, simpleVars>>

-----------------------------------------------------------------------------
(* part_002: the simple emulator *)

\* ticks of the simple emulator that are followed
SimpleTicks == 90

\* setup(), lines 56-111
SetupSimple ==
    /\ pc = "setup"
    /\ version = "v01"
    /\ millis' = TimeAdd(millis, SetupMillis)
    /\ tickGap' \in TickGaps
    /\ pc' = "loop"
    /\ UNCHANGED <<config, genVars, feasVars, manualVars, powerMultiplier, sinkVars,
                   simpleVars, lastUpdate, workoutStartTime, segmentStartTime,
                   cooldownStartTime, currentSegment, workoutActive, workoutFinished,
                   finalHeartRate, power, cadence, cadenceIncreasing, heartRate,
                   crankRevolutions, lastCrankEventTime>>

\* a power that turns round one tick after the bound
updateValuesSimpleOvershoot ==
    LET p == IF powerIncreasing THEN Uint16(power + 1) ELSE Uint16(power - 1)
        c == IF cadenceIncreasing THEN Uint8(cadence + 1) ELSE Uint8(cadence - 1)
        h == IF heartIncreasing THEN Uint8(heartRate + 1) ELSE Uint8(heartRate - 1)
    IN /\ power' = p
       /\ powerIncreasing' = IF powerIncreasing THEN ~(p > 220) ELSE p < 200
       /\ cadence' = c
       /\ cadenceIncreasing' = IF cadenceIncreasing THEN ~(c >= 98) ELSE c <= 90
       /\ heartRate' = h
       /\ heartIncreasing' = IF heartIncreasing THEN ~(h >= 155) ELSE h <= 135
       /\ crankRevolutions' = Uint16(crankRevolutions + 1)
       /\ lastCrankEventTime' = (lastCrankEventTime + Uint16((60 * 1024) \div c)) % 65536

\* updateValues(), lines 131-180; the cadence is never 0 here
updateValuesSimple ==
    LET p == IF powerIncreasing THEN Uint16(power + 1) ELSE Uint16(power - 1)
        c == IF cadenceIncreasing THEN Uint8(cadence + 1) ELSE Uint8(cadence - 1)
        h == IF heartIncreasing THEN Uint8(heartRate + 1) ELSE Uint8(heartRate - 1)
    IN /\ power' = p
       /\ powerIncreasing' = IF powerIncreasing THEN ~(p >= 220) ELSE p <= 200
       /\ cadence' = c
       /\ cadenceIncreasing' = IF cadenceIncreasing THEN ~(c >= 98) ELSE c <= 90
       /\ heartRate' = h
       /\ heartIncreasing' = IF heartIncreasing THEN ~(h >= 155) ELSE h <= 135
       /\ crankRevolutions' = Uint16(crankRevolutions + 1)
       /\ lastCrankEventTime' = (lastCrankEventTime + Uint16((60 * 1024) \div c)) % 65536

\* loop(), lines 113-129, when more than 1000 ms have passed since the last
\* tick
TickSimple ==
    /\ pc = "loop"
    /\ version = "v01"
    /\ crankRevolutions < SimpleTicks
    /\ millis' = NextTickTime
    /\ lastUpdate' = NextTickTime
    /\ updateValuesSimple
    /\ Notify
    /\ UNCHANGED <<config, pc, genVars, feasVars, manualVars, powerMultiplier,
                   deviceConnected, tickGap, workoutStartTime, segmentStartTime,
                   cooldownStartTime, currentSegment, workoutActive, workoutFinished,
                   finalHeartRate>>

-----------------------------------------------------------------------------
(* Specifications *)

Generate ==
    \/ GenerateStart
    \/ GenerateBoundary
    \/ GenerateFinish
    \/ Setup
    \/ GenerateWorkoutStart
    \/ GenerateWorkoutSegment
    \/ GenerateWorkoutFinish
    \/ SetupWorkout

\* road_to_halo.ino and part_001: generation and setup, every configuration
\* within the bounds
NextGen == Generate
SpecGen == InitGen /\ [][NextGen]_vars

\* part_003: generation and setup
NextFeasible ==
    \/ FeasibleStart
    \/ FeasibleDuration
    \/ FeasibleDurationsDone
    \/ FeasibleAttempt
    \/ FeasibleSample
    \/ FeasibleAttempted
    \/ FeasibleFinish
    \/ SetupFeasible

SpecFeasible == InitFeasible /\ [][NextFeasible]_vars

\* generateCustomWorkout and setup() run to their end: setup() is called once
\* and nothing suspends the loops of the generator, so a step of the
\* generator that can be taken is taken
\* Every step of NextFeasible changes the position of the program in the
\* generator: its statement, the loop index or the candidate counter.
GeneratorPosition == <<pc, i, powerAttempts>>

GeneratorStep ==
    /\ version = "v0232"
    /\ pc # "loop"
    /\ pc' \in {"durations", "attempt", "sample", "attempted", "finish", "setup", "loop"}
    /\ i' \in 0 .. 255
    /\ powerAttempts' \in 0 .. 20

LiveFeasible == SpecFeasible /\ WF_GeneratorPosition(GeneratorStep)

\* part_003: generation of the plans with 15 custom segments, setup and the
\* first FeasiblePlaySeconds of playback
InitFeasiblePlay ==
    /\ version = "v0232"
    /\ CUSTOM_DURATION_MINUTES = 240
    /\ MAX_CUSTOM_SEGMENTS = 15
    /\ CUSTOM_TARGET_TSS = 3500000
    /\ TRAINING_MODE = "auto"
    /\ tickGap = 0
    /\ contactBounce = FALSE
    /\ InitGlobals

NextFeasiblePlay ==
    \/ NextFeasible
    \/ Tick

SpecFeasiblePlay == InitFeasiblePlay /\ [][NextFeasiblePlay]_vars

\* generation, setup and playback of road_to_halo.ino for short plans
PlaySegments == 2

InitPlay ==
    /\ version = "v0235"
    /\ CUSTOM_DURATION_MINUTES = MaxDurationMinutes
    /\ MAX_CUSTOM_SEGMENTS \in 1 .. PlaySegments
    /\ CUSTOM_TARGET_TSS = 15000
    /\ TRAINING_MODE = "auto"
    /\ tickGap = 0
    /\ contactBounce = FALSE
    /\ InitGlobals

NextPlay ==
    \/ GenerateStart
    \/ GenerateBoundary
    \/ GenerateFinish
    \/ Setup
    \/ Tick

SpecPlay == InitPlay /\ [][NextPlay]_vars

\* road_to_halo.ino left running until the 32-bit clock has turned round
\* once since the start of the session
InitWrap ==
    /\ version = "v0235"
    /\ CUSTOM_DURATION_MINUTES = MaxDurationMinutes
    /\ MAX_CUSTOM_SEGMENTS = 2
    /\ CUSTOM_TARGET_TSS = 15000
    /\ TRAINING_MODE = "auto"
    /\ tickGap = 0
    /\ contactBounce = FALSE
    /\ InitGlobals

NextWrap ==
    \/ GenerateStart
    \/ GenerateBoundary
    \/ GenerateFinish
    \/ Setup
    \/ Tick
    \/ IdleTicks

SpecWrap == InitWrap /\ [][NextWrap]_vars

\* the same with a loop() that keeps running: delay(20) returns and the test
\* of line 672 is made again, so that a tick that is due is taken.  The
\* steps of NextWrap that set lastUpdate to NextTickTime are those of Tick,
\* and one is possible whenever TickDue holds.
LiveWrap == SpecWrap /\ WF_lastUpdate(TickDue /\ lastUpdate' = NextTickTime)

\* part_001 in auto mode: generation, setup and playback of the plans with
\* one and with two custom segments
CustomMinutes == {1}
CustomSegmentCounts == {3, 4}

InitCustom ==
    /\ version = "v0245"
    /\ CUSTOM_DURATION_MINUTES \in CustomMinutes
    /\ MAX_CUSTOM_SEGMENTS \in CustomSegmentCounts
    /\ CUSTOM_TARGET_TSS = 3500000
    /\ TRAINING_MODE = "auto"
    /\ tickGap = 0
    /\ contactBounce = FALSE
    /\ InitGlobals

NextCustom ==
    \/ GenerateWorkoutStart
    \/ GenerateWorkoutSegment
    \/ GenerateWorkoutFinish
    \/ SetupWorkout
    \/ Tick

SpecCustom == InitCustom /\ [][NextCustom]_vars

\* part_001 in auto mode: generation and setup of the plans of three minutes
\* with two and with three custom segments, whose random durations are
\* drawn between 70% and 130% of the average
ShareMinutes == 3
ShareSegmentCounts == {4, 5}

InitShares ==
    /\ version = "v0245"
    /\ CUSTOM_DURATION_MINUTES = ShareMinutes
    /\ MAX_CUSTOM_SEGMENTS \in ShareSegmentCounts
    /\ CUSTOM_TARGET_TSS = 3500000
    /\ TRAINING_MODE = "auto"
    /\ tickGap = 0
    /\ contactBounce = FALSE
    /\ InitGlobals

NextShares ==
    \/ GenerateWorkoutStart
    \/ GenerateWorkoutSegment
    \/ GenerateWorkoutFinish
    \/ SetupWorkout

SpecShares == InitShares /\ [][NextShares]_vars

\* part_001 in auto mode with a device that connects and disconnects:
\* generation, setup and playback of the plans with one custom segment
InitNotify ==
    /\ version = "v0245"
    /\ CUSTOM_DURATION_MINUTES \in CustomMinutes
    /\ MAX_CUSTOM_SEGMENTS = 3
    /\ CUSTOM_TARGET_TSS = 3500000
    /\ TRAINING_MODE = "auto"
    /\ tickGap = 0
    /\ contactBounce = FALSE
    /\ InitGlobals

NextNotify ==
    \/ GenerateWorkoutStart
    \/ GenerateWorkoutSegment
    \/ GenerateWorkoutFinish
    \/ SetupWorkout
    \/ Tick
    \/ onConnect
    \/ onDisconnect

SpecNotify == InitNotify /\ [][NextNotify]_vars

\* part_001 in manual mode: generation, setup, the buttons and the first
\* seconds of playback
InitManual ==
    /\ version = "v0245"
    /\ CUSTOM_DURATION_MINUTES = MaxDurationMinutes
    /\ MAX_CUSTOM_SEGMENTS = 3
    /\ CUSTOM_TARGET_TSS = 3500000
    /\ TRAINING_MODE = "manual"
    /\ tickGap = 0
    /\ contactBounce = FALSE
    /\ InitGlobals

NextManual ==
    \/ GenerateWorkoutStart
    \/ SetupWorkout
    \/ ButtonPoll
    \/ Tick

SpecManual == InitManual /\ [][NextManual]_vars

\* part_001 in manual mode, ridden to the end of the session and left
\* running until the clock has turned round
NextManualEnd ==
    \/ NextManual
    \/ ManualRide
    \/ ManualRest

SpecManualEnd == InitManual /\ [][NextManualEnd]_vars

\* part_001 in manual mode with buttons whose contacts bounce
InitBounce ==
    /\ version = "v0245"
    /\ CUSTOM_DURATION_MINUTES = MaxDurationMinutes
    /\ MAX_CUSTOM_SEGMENTS = 3
    /\ CUSTOM_TARGET_TSS = 3500000
    /\ TRAINING_MODE = "manual"
    /\ tickGap = 0
    /\ contactBounce = TRUE
    /\ InitGlobals

SpecBounce == InitBounce /\ [][NextManual]_vars

\* part_002 with a device that connects and disconnects
InitSimple ==
    /\ version = "v01"
    /\ CUSTOM_DURATION_MINUTES = 0
    /\ MAX_CUSTOM_SEGMENTS = 0
    /\ CUSTOM_TARGET_TSS = 0
    /\ TRAINING_MODE = "auto"
    /\ tickGap = 0
    /\ contactBounce = FALSE
    /\ InitGlobals

NextSimple ==
    \/ SetupSimple
    \/ TickSimple
    \/ onConnect
    \/ onDisconnect

SpecSimple == InitSimple /\ [][NextSimple]_vars

Init == InitGen \/ InitFeasible \/ InitSimple
Next ==
    \/ Generate
    \/ NextFeasible
    \/ Tick
    \/ ButtonPoll
    \/ IdleTicks
    \/ NextSimple
Spec == Init /\ [][Next]_vars


\* road_to_halo.ino left running until the clock has turned round, with a
\* device that connects and disconnects
NextRecovery ==
    \/ NextWrap
    \/ onConnect
    \/ onDisconnect

SpecRecovery == InitWrap /\ [][NextRecovery]_vars

\* the four programs side by side: generation, setup and playback of
\* road_to_halo.ino, of part_001 in auto mode, of part_003 and of part_002
InitTicks == InitPlay \/ InitCustom \/ InitFeasiblePlay \/ InitSimple

NextTicks ==
    \/ GenerateStart
    \/ GenerateBoundary
    \/ GenerateFinish
    \/ Setup
    \/ GenerateWorkoutStart
    \/ GenerateWorkoutSegment
    \/ GenerateWorkoutFinish
    \/ SetupWorkout
    \/ NextFeasible
    \/ SetupSimple
    \/ TickSimple
    \/ Tick

SpecTicks == InitTicks /\ [][NextTicks]_vars

-----------------------------------------------------------------------------
(* Properties of the generated plan *)

\* a configuration with a positive duration, segment count and target TSS
ValidConfig ==
    /\ CUSTOM_DURATION_MINUTES > 0
    /\ MAX_CUSTOM_SEGMENTS > 0
    /\ CUSTOM_TARGET_TSS > 0

\* a valid configuration whose segment count leaves room, in part_001, for the
\* warmup, the cooldown and a custom segment
StructuredConfig ==
    /\ ValidConfig
    /\ version = "v0245" => MAX_CUSTOM_SEGMENTS >= 3

\* the plan is complete: generation and setup() have returned
Planned == pc = "loop"

\* the durations of the segments from..to (indices of the array)
RECURSIVE DurationOf(_, _, _)
DurationOf(w, from, to) ==
    IF from > to THEN 0 ELSE At(w, from).duration + DurationOf(w, from + 1, to)

\* C1: for every valid configuration the durations of all segments of the
\* plan sum to exactly totalWorkoutDuration, the value the tick compares the
\* elapsed seconds against
C1_DurationsSumToTotal ==
    (Planned /\ StructuredConfig)
        => DurationOf(workout, 0, totalWorkoutSegments - 1) = totalWorkoutDuration

\* C2: the durations of the main-block segments sum to exactly
\* CUSTOM_DURATION_MINUTES * 60 seconds, the last one absorbing the remainder
\* of the equal share
C2_MainBlockCoversDuration ==
    (Planned /\ ValidConfig /\ version = "v0235")
        => DurationOf(workout, 1, totalWorkoutSegments - 2) = CUSTOM_DURATION_MINUTES * 60

\* C3: in every auto-mode plan each segment ends at the ratio at which the
\* next one starts
C3_Continuity ==
    (Planned /\ StructuredConfig /\ TRAINING_MODE = "auto")
        => \A j \in 0 .. totalWorkoutSegments - 2 :
              At(workout, j).powerHigh = At(workout, j + 1).powerLow

\* C4: every start and end ratio of every segment of a generated plan lies
\* within [0.30, 1.50]
C4_RatiosWithinBounds ==
    Planned
        => \A j \in 1 .. Len(workout) :
              /\ workout[j].powerLow >= Ratio(30) /\ workout[j].powerLow <= Ratio(150)
              /\ workout[j].powerHigh >= Ratio(30) /\ workout[j].powerHigh <= Ratio(150)

\* C5: no main-block boundary ratio of at least 1.20 is immediately followed
\* by another main-block boundary ratio of at least 1.20
C5_RecoveryAfterHighIntensity ==
    (Planned /\ ValidConfig /\ version = "v0235")
        => \A j \in 1 .. totalWorkoutSegments - 2 :
              ~(At(workout, j).powerLow >= Ratio(120) /\ At(workout, j).powerHigh >= Ratio(120))

\* C6: after the normalization pass the TSS of the main block is within 5% of
\* the target TSS (the program has no other outcome to report)
C6_TSSWithinTolerance ==
    (Planned /\ ValidConfig /\ version = "v0235")
        => LET finalTSS == SumTSS(workout, 1, totalWorkoutSegments - 2)
           IN /\ 20 * (finalTSS - CUSTOM_TARGET_TSS) <= CUSTOM_TARGET_TSS
              /\ 20 * (CUSTOM_TARGET_TSS - finalTSS) <= CUSTOM_TARGET_TSS

\* C7: a configuration with a duration, a segment count or a target TSS that
\* is not positive is rejected before any segment is generated
C7_InvalidConfigRejected ==
    ~ValidConfig => pc \in {"generate", "crashed"}

\* C8: an auto-mode plan is one warmup (600 s, 0.30 -> 1.00), exactly
\* MAX_CUSTOM_SEGMENTS main segments and one cooldown (600 s, 0.60 -> 0.30),
\* and the session lasts the main duration plus 20 minutes
C8_PlanShape ==
    (Planned /\ StructuredConfig /\ TRAINING_MODE = "auto")
        => /\ totalWorkoutSegments = MAX_CUSTOM_SEGMENTS + 2
           /\ Len(workout) = MAX_CUSTOM_SEGMENTS + 2
           /\ At(workout, 0) = WarmupSegment
           /\ At(workout, MAX_CUSTOM_SEGMENTS + 1) = CooldownSegment
           /\ totalWorkoutDuration = CUSTOM_DURATION_MINUTES * 60 + 1200

-----------------------------------------------------------------------------
(* Properties of the end of the session *)

\* C9: the first tick with elapsed seconds >= totalWorkoutDuration latches the
\* heart rate of the last running tick as finalHeartRate, once; at elapsed =
\* totalWorkoutDuration + 1 power and cadence are 0 and the heart rate is
\* finalHeartRate
C9_FinalHeartRateLatched ==
    [][/\ (~workoutFinished /\ workoutFinished')
            => (finalHeartRate' = heartRate /\ cooldownStartTime' = millis')
       /\ workoutFinished
            => (workoutFinished' /\ finalHeartRate' = finalHeartRate
                                 /\ cooldownStartTime' = cooldownStartTime)
       /\ (workoutFinished' /\ WorkoutElapsed' = totalWorkoutDuration' + 1)
            => (power' = 0 /\ cadence' = 0 /\ heartRate' = finalHeartRate')]_vars

\* the tick at elapsed = totalWorkoutDuration + 1 of a session that ran
C9_Witness ==
    /\ Planned
    /\ workoutFinished
    /\ WorkoutElapsed = totalWorkoutDuration + 1
    /\ currentSegment = totalWorkoutSegments - 1
    /\ heartRate = finalHeartRate
    /\ power = 0

\* C10: at elapsed = totalWorkoutDuration + 300 the heart rate is 90, and it
\* is 90 on every later tick
C10_RestingHeartRate ==
    (Planned /\ workoutFinished /\ WorkoutElapsed >= totalWorkoutDuration + 300)
        => heartRate = 90

-----------------------------------------------------------------------------
(* Properties of the running session *)

\* the step is a tick of the running session: updateValues() ran and the
\* session was not over
RunningTick == Planned /\ lastUpdate' # lastUpdate /\ ~workoutFinished'

\* the state is the one a tick of the running session left
AfterRunningTick == Planned /\ lastUpdate = millis /\ ~workoutFinished

\* C11: while the session runs the heart rate derived from the power ratio
\* never falls when the ratio rises and never rises when it falls, and it is
\* exactly HR_BASE at the ratio 0.50 and exactly HR_MAX at the ratio 1.27
C11_HeartRateMonotone ==
    [][(RunningTick /\ powerMultiplier' # NaN)
          => /\ (AfterRunningTick /\ powerMultiplier # NaN /\ powerMultiplier' >= powerMultiplier)
                   => heartRate' >= heartRate
             /\ (AfterRunningTick /\ powerMultiplier # NaN /\ powerMultiplier' <= powerMultiplier)
                   => heartRate' <= heartRate
             /\ powerMultiplier' = Ratio(50) => heartRate' = HR_BASE
             /\ powerMultiplier' = Ratio(127) => heartRate' = HR_MAX]_vars

\* the first tick of a segment that starts at the ratio 1.27, after the
\* ticks of the segment before it
C11_Witness ==
    /\ AfterRunningTick
    /\ currentSegment > 0
    /\ segmentStartTime = lastUpdate
    /\ powerMultiplier = Ratio(127)
    /\ heartRate = HR_MAX

\* C12: in every reachable state, while the session runs, recovers and is
\* finished, the heart rate lies within 90..180
C12_HeartRateInRange ==
    heartRate >= 90 /\ heartRate <= 180

\* C13: on the first tick of a segment of the plan the power before the
\* fluctuation is the end ratio of the segment before it times FTP
C13_PowerContinuous ==
    [][(RunningTick /\ currentSegment' = currentSegment + 1
                    /\ currentSegment' < totalWorkoutSegments
                    /\ powerMultiplier' # NaN)
          => (FTP * powerMultiplier') \div Unit
               = (FTP * At(workout, currentSegment).powerHigh) \div Unit]_vars

\* C14: on every tick of the running session the cadence changes by exactly
\* one, stays within 90..98 and changes direction only at 90 and at 98
C14_CadenceTriangle ==
    [][RunningTick
          => /\ cadence' = cadence + 1 \/ cadence' = cadence - 1
             /\ cadence' >= 90 /\ cadence' <= 98
             /\ cadenceIncreasing' # cadenceIncreasing => cadence' \in {90, 98}
             /\ cadenceIncreasing => cadence' = cadence + 1
             /\ ~cadenceIncreasing => cadence' = cadence - 1]_vars

\* the cadence is back at 90 after two full swings, about to rise again
C14_Witness ==
    /\ AfterRunningTick
    /\ cadence = 90
    /\ cadenceIncreasing
    /\ crankRevolutions = 32

-----------------------------------------------------------------------------
(* Properties of the manual mode *)

ManualPlanned == Planned /\ TRAINING_MODE = "manual"

\* milliseconds from the start of the session to the time t
SessionMillis(t) ==
    LET d == TimeDiff(t, workoutStartTime) IN 1000 * d[1] + d[2]

\* the number of commands given with a button whose last press was at the
\* time lastPress, when no other button was used: one every CommandPeriod ms
Commands(lastPress) ==
    IF lastPress = <<0, 0>> THEN 0 ELSE SessionMillis(lastPress) \div CommandPeriod

\* C15: N increment commands (press, then release), more than the debounce
\* window of 200 ms apart, leave the target at min(500, start + N * step),
\* and N decrement commands leave it at max(50, start - N * step)
C15_StepCommands ==
    (ManualPlanned /\ buttonDownLastState = HIGH /\ buttonUpLastState = HIGH)
        => /\ lastButtonPressDown = <<0, 0>>
                => manualTargetPower
                     = Min(500, MANUAL_BASE_POWER
                                  + Commands(lastButtonPressUp) * MANUAL_POWER_STEP)
           /\ lastButtonPressUp = <<0, 0>>
                => manualTargetPower
                     = Max(50, MANUAL_BASE_POWER
                                 - Commands(lastButtonPressDown) * MANUAL_POWER_STEP)

\* C16: in manual mode the target power lies within 50..500 in every
\* reachable state
C16_TargetWithinLimits ==
    manualTargetPower >= 50 /\ manualTargetPower <= 500

\* the target is at the lower limit, and the button that lowers it has just
\* been released once more
C16_Witness ==
    /\ ManualPlanned
    /\ manualTargetPower = 50
    /\ buttonDownLastState = HIGH
    /\ Commands(lastButtonPressDown) > (MANUAL_BASE_POWER - 50) \div MANUAL_POWER_STEP
    /\ lastButtonPressUp = <<0, 0>>
    /\ ElapsedLessThan(millis, lastButtonPressDown, BUTTON_DEBOUNCE_MS)

\* C17: every press followed by a release of a button changes the target by
\* exactly one step (up to the limits), however long the button is held, and
\* nothing else changes the target
C17_OneStepPerCycle ==
    [][/\ (buttonUpLastState = LOW /\ buttonUpLastState' = HIGH)
            => manualTargetPower' = Min(500, manualTargetPower + MANUAL_POWER_STEP)
       /\ (buttonDownLastState = LOW /\ buttonDownLastState' = HIGH)
            => manualTargetPower' = Max(50, manualTargetPower - MANUAL_POWER_STEP)
       /\ manualTargetPower' # manualTargetPower
            => \/ buttonUpLastState = LOW /\ buttonUpLastState' = HIGH
               \/ buttonDownLastState = LOW /\ buttonDownLastState' = HIGH]_vars

\* C18: in manual mode the power reported by a tick of the running session
\* is the target power, without fluctuation
C18_ManualPowerIsTarget ==
    [][(RunningTick /\ TRAINING_MODE = "manual") => power' = manualTargetPower']_vars

\* a tick of the manual session after the target has been changed
C18_Witness ==
    /\ ManualPlanned
    /\ AfterRunningTick
    /\ manualTargetPower # MANUAL_BASE_POWER
    /\ power = manualTargetPower
    /\ crankRevolutions > 1

\* C19: in manual mode the plan is one segment that spans the session and
\* whose start and end ratio are the current target over FTP, so that plan and
\* target agree at every tick
C19_ManualPlanFollowsTarget ==
    (ManualPlanned /\ AfterRunningTick)
        => /\ totalWorkoutSegments = 1
           /\ At(workout, 0).duration = MANUAL_DURATION_MINUTES * 60
           /\ totalWorkoutDuration = MANUAL_DURATION_MINUTES * 60
           /\ At(workout, 0).powerLow = (manualTargetPower * Unit) \div FTP
           /\ At(workout, 0).powerHigh = (manualTargetPower * Unit) \div FTP

-----------------------------------------------------------------------------
(* Properties of the records *)

\* the 16 bit value of two bytes, the low one first
LittleEndian(low, high) == low + 256 * high

Byte == 0 .. 255

\* C20: the three records of a tick have the fixed layouts (power: 0, 0 and
\* the watts, low byte first; crank: 2, the revolutions and the last event
\* time, low bytes first; heart rate: 0 and the bpm) and decode to exactly
\* the power, crank revolutions, last crank event time and heart rate of the
\* state
C20_RecordsLossless ==
    powerData # << >>
        => /\ Len(powerData) = 4 /\ Len(cadenceData) = 5 /\ Len(heartData) = 2
           /\ \A n \in 1 .. 4 : powerData[n] \in Byte
           /\ \A n \in 1 .. 5 : cadenceData[n] \in Byte
           /\ \A n \in 1 .. 2 : heartData[n] \in Byte
           /\ powerData[1] = 0 /\ powerData[2] = 0
           /\ LittleEndian(powerData[3], powerData[4]) = power
           /\ cadenceData[1] = 2
           /\ LittleEndian(cadenceData[2], cadenceData[3]) = crankRevolutions
           /\ LittleEndian(cadenceData[4], cadenceData[5]) = lastCrankEventTime
           /\ heartData[1] = 0
           /\ heartData[2] = heartRate

\* records of a power, a revolution count and an event time of two bytes
C20_Witness ==
    /\ powerData # << >>
    /\ AfterRunningTick
    /\ powerData[4] > 0 /\ powerData[3] > 0
    /\ cadenceData[3] > 0 /\ cadenceData[2] > 0
    /\ cadenceData[5] > 0 /\ cadenceData[4] > 0

-----------------------------------------------------------------------------
(* Properties of the simple emulator *)

\* a tick of the simple emulator
SimpleTick == version = "v01" /\ lastUpdate' # lastUpdate

Abs(x) == IF x < 0 THEN 0 - x ELSE x

\* C21: in the simple emulator power stays within 200..220 W, cadence within
\* 90..98 rpm and heart rate within 135..155 bpm after any number of ticks;
\* every tick moves each of the three by exactly 1, and a value that stands
\* on one of its bounds moves towards the other one
C21_SimpleCycles ==
    /\ [](version = "v01" =>
            /\ power >= 200 /\ power <= 220
            /\ cadence >= 90 /\ cadence <= 98
            /\ heartRate >= 135 /\ heartRate <= 155)
    /\ [][SimpleTick =>
            /\ Abs(power' - power) = 1
            /\ Abs(cadence' - cadence) = 1
            /\ Abs(heartRate' - heartRate) = 1
            /\ (power = 200 => power' = 201) /\ (power = 220 => power' = 219)
            /\ (cadence = 90 => cadence' = 91) /\ (cadence = 98 => cadence' = 97)
            /\ (heartRate = 135 => heartRate' = 136)
            /\ (heartRate = 155 => heartRate' = 154)]_vars

\* the power and the heart rate are back on their lower bounds after a full
\* cycle of 40 ticks, the cadence on its upper bound in the middle of its third
C21_Witness ==
    /\ version = "v01"
    /\ crankRevolutions = 40
    /\ power = 200 /\ powerIncreasing
    /\ heartRate = 135 /\ heartIncreasing
    /\ cadence = 98 /\ ~cadenceIncreasing


-----------------------------------------------------------------------------
(* Properties of the segment pointer and of the end of the session *)

\* C22: after every tick of the running session the pointer stands on the
\* segment whose interval of the plan contains the elapsed seconds (the
\* durations of the segments before it sum to at most workoutElapsed, and
\* with its own duration to more), for the tick spacings of TickGaps; the
\* pointer never moves backwards
C22_PointerTracksElapsed ==
    /\ [](AfterRunningTick /\ version = "v0235" =>
            /\ currentSegment < totalWorkoutSegments
            /\ SumDurations(workout, currentSegment) <= WorkoutElapsed
            /\ WorkoutElapsed < SumDurations(workout, currentSegment + 1))
    /\ [][currentSegment' >= currentSegment]_vars


\* C23: once workoutFinished is set no later tick reports a nonzero power or
\* cadence or moves the segment pointer, however long the 32-bit clock runs
C23_FinishedIsAbsorbing ==
    [][(Planned /\ workoutFinished) =>
          /\ workoutFinished'
          /\ power' = 0
          /\ cadence' = 0
          /\ currentSegment' = currentSegment
          /\ segmentStartTime' = segmentStartTime]_vars


\* the phase of the session: the branch of updateValues() that the last tick
\* took, Running before the first tick
Phase ==
    IF lastUpdate # millis THEN "Running"
    ELSE IF WorkoutElapsed < totalWorkoutDuration THEN "Running"
    ELSE IF ElapsedSeconds(lastUpdate, cooldownStartTime) < 300 THEN "Recovering"
    ELSE "Finished"

PhaseRank(phase) ==
    CASE phase = "Running" -> 0
      [] phase = "Recovering" -> 1
      [] phase = "Finished" -> 2

\* C24: while ticks keep occurring a session that was started leaves Running,
\* passes through Recovering and reaches power = 0, cadence = 0 and
\* heartRate = 90 in Finished; no tick takes the session to an earlier phase
C24_SessionTerminates ==
    /\ (Planned /\ ~workoutFinished) ~> (Planned /\ Phase = "Recovering")
    /\ (Planned /\ ~workoutFinished)
          ~> (Phase = "Finished" /\ power = 0 /\ cadence = 0 /\ heartRate = 90)
    /\ [][Planned => PhaseRank(Phase') >= PhaseRank(Phase)]_vars


\* the last tick's recoveryElapsed
RecoveryElapsed == ElapsedSeconds(lastUpdate, cooldownStartTime)

\* the last tick was one of the recovery window
Recovering == Planned /\ Phase = "Recovering"

\* C25: in the recovery window of 300 s the heart rate is finalHeartRate -
\* floor((finalHeartRate - 90) * recoveryElapsed / 300), lies between 90 and
\* finalHeartRate, and no tick of the window raises it
C25_RecoveryDecay ==
    /\ [](Recovering =>
            /\ heartRate = finalHeartRate - ((finalHeartRate - 90) * RecoveryElapsed) \div 300
            /\ heartRate >= 90
            /\ heartRate <= finalHeartRate)
    /\ [][Recovering' => heartRate' <= heartRate]_vars

\* half way through the window, half of the way down from 125 (rounded down)
C25_Witness ==
    /\ Recovering
    /\ RecoveryElapsed = 150
    /\ finalHeartRate = 125
    /\ heartRate = 108


-----------------------------------------------------------------------------
(* Properties of the debounce window *)

\* C26: a press that was accepted triggers at most one adjustment, whatever
\* edges of the button follow within BUTTON_DEBOUNCE_MS of it.  Every
\* adjustment comes within BUTTON_DEBOUNCE_MS of the press accepted last, so
\* the target is never more steps away from MANUAL_BASE_POWER than presses
\* were accepted: while only one of the buttons has been used these are the
\* Commands given with it
C26_OneAdjustmentPerPress ==
    ManualPlanned
        => /\ lastButtonPressDown = <<0, 0>>
                => manualTargetPower
                     <= MANUAL_BASE_POWER + Commands(lastButtonPressUp) * MANUAL_POWER_STEP
           /\ lastButtonPressUp = <<0, 0>>
                => manualTargetPower
                     >= MANUAL_BASE_POWER - Commands(lastButtonPressDown) * MANUAL_POWER_STEP


-----------------------------------------------------------------------------
(* Properties of the draws *)

\* C27: among the boundaries of the main block as drawn (before the
\* normalization pass), a boundary that follows three consecutive boundaries
\* of at most 0.75 is above 0.75: no four consecutive boundaries are all
\* within the recovery band
C27_NoFourLowBoundaries ==
    (pc = "boundaries" /\ version = "v0235")
        => \A n \in 3 .. (Len(segmentPowers) - 1) :
              (\A j \in (n - 3) .. (n - 1) : At(segmentPowers, j) <= Ratio(75))
                  => At(segmentPowers, n) > Ratio(75)

\* C28: in the plan generated by part_001 in auto mode, every custom segment
\* but the last lasts between 70% and 130% of the equal share (the main
\* duration divided by the number of custom segments), and the last custom
\* segment differs from the equal share by no more than the remainder of
\* that division.
C28_DurationsNearShare ==
    (version = "v0245" /\ TRAINING_MODE = "auto" /\ pc = "setup"
        /\ totalWorkoutSegments > 2) =>
        LET customSegments == totalWorkoutSegments - 2
            mainDuration == CUSTOM_DURATION_MINUTES * 60
            share == mainDuration \div customSegments
        IN /\ \A j \in 2 .. totalWorkoutSegments - 2 :
                 /\ 10 * workout[j].duration >= 7 * share
                 /\ 10 * workout[j].duration <= 13 * share
           /\ Abs(workout[totalWorkoutSegments - 1].duration - share)
                 <= mainDuration % customSegments

\* C29: every segment of a generated plan lasts at least one second, for
\* every configuration with a positive duration, segment count and target
\* TSS: playback never divides the time spent in a segment by a duration of
\* zero.
C29_DurationsPositive ==
    (pc \in {"setup", "loop"} /\ version \in {"v0235", "v0245"}
        /\ CUSTOM_DURATION_MINUTES > 0 /\ MAX_CUSTOM_SEGMENTS > 0
        /\ CUSTOM_TARGET_TSS > 0) =>
        \A j \in 1 .. totalWorkoutSegments : workout[j].duration >= 1

-----------------------------------------------------------------------------
(* Properties of the feasibility-gated generator *)

\* a step of FeasibleSample that gives up the attempt at boundary i
AttemptAborted ==
    /\ pc = "sample"
    /\ allSegmentsFeasible
    /\ ~allSegmentsFeasible'

\* C30: in the feasibility-gated generator an attempt is given up at a
\* segment only when the candidate sampled last for it, the 20th included,
\* fails isSegmentFeasible: a candidate that passes is always accepted.
C30_FeasibleCandidateAccepted ==
    [][AttemptAborted =>
          ~isSegmentFeasible(At(segmentPowers, i - 1), candidatePower',
                             At(segmentDurations, i - 1), currentWbal)]_vars

\* C31: the feasibility-gated generator prints the "Could not satisfy all
\* W'bal constraints" warning if and only if none of its attempts, the 50th
\* included, ended with every segment feasible.
C31_WarningIffInfeasible ==
    (version = "v0232" /\ pc \in {"setup", "loop"}) =>
        (warned <=> ~allSegmentsFeasible)

\* C32: when the feasibility-gated generator gives up after its last
\* attempt, every interior boundary of the custom block (segmentPowers[1] to
\* segmentPowers[numCustomSegments - 1] at line 611, from which the plan is
\* built) holds a value that some attempt sampled within the sampling
\* bounds: none is left unassigned.
C32_BestEffortPlanComplete ==
    (version = "v0232" /\ pc = "finish" /\ ~allSegmentsFeasible) =>
        \A j \in 1 .. numCustomSegments - 1 :
            /\ At(segmentPowers, j) # Unassigned
            /\ At(segmentPowers, j) >= lowerBound
            /\ At(segmentPowers, j) <= (targetAverageIF * 14) \div 10

\* lines 583-600 replayed over the custom segments j .. of the plan w: each
\* segment passes isSegmentFeasible against the simulated W'bal, which is
\* then updated with the segment's average power and clamped
RECURSIVE PlanFeasibleFrom(_, _, _)
PlanFeasibleFrom(w, j, wbal) ==
    IF j > FIXED_START_SEGMENTS + numCustomSegments THEN TRUE
    ELSE LET avgPower == (w[j].powerLow + w[j].powerHigh) \div 2
             change == calculateWbalChange(avgPower, w[j].duration)
         IN /\ isSegmentFeasible(w[j].powerLow, w[j].powerHigh, w[j].duration, wbal)
            /\ PlanFeasibleFrom(w, j + 1, Max(0, Min(W_PRIME_JOULES, wbal + change)))

\* C33: in a plan returned by a successful feasibility-gated generation every
\* custom segment, the last one included, passes the feasibility check
\* against the simulated W'bal after the TSS normalization.
C33_FeasibleAfterNormalization ==
    (version = "v0232" /\ pc \in {"setup", "loop"} /\ allSegmentsFeasible) =>
        PlanFeasibleFrom(workout, FIXED_START_SEGMENTS + 1, W_PRIME_JOULES)

\* C34: in the plan of the feasibility-gated generator every custom segment,
\* the last one included, lasts between 120 and 1800 seconds, and the
\* durations of the custom segments add up to the target duration.
C34_CustomDurationsBounded ==
    (version = "v0232" /\ pc \in {"setup", "loop"}) =>
        /\ \A j \in 1 .. numCustomSegments :
              /\ segmentDurations[j] >= 120
              /\ segmentDurations[j] <= 1800
        /\ DurationOf(workout, FIXED_START_SEGMENTS,
                      FIXED_START_SEGMENTS + numCustomSegments - 1)
              = CUSTOM_DURATION_MINUTES * 60

\* C35: the feasibility-gated generation ends and playback starts: the
\* generator makes at most 50 attempts, each drawing at most 20 candidates
\* for a boundary, and then returns a plan whether or not an attempt
\* succeeded.
C35_GenerationTerminates ==
    /\ [](version = "v0232" => attempts <= 50 /\ powerAttempts <= 20)
    /\ (version = "v0232") ~> (Planned /\ workoutActive)

\* the generator gave up after 50 attempts and playback has started
C35_Witness ==
    /\ version = "v0232"
    /\ Planned
    /\ workoutActive
    /\ attempts = 50
    /\ powerAttempts = 20
    /\ ~allSegmentsFeasible

-----------------------------------------------------------------------------
(* Properties of the tick *)

\* C36: on every tick of the running session in auto mode the power ratio
\* used is at least the minimum ratio 0.30, and the power reported is at
\* least 25% of FTP and not 0, also in segments whose ratios are below the
\* minimum ratio.
C36_PowerFloored ==
    [][(RunningTick /\ TRAINING_MODE = "auto")
          => /\ powerMultiplier' >= MIN_POWER_RATIO
             /\ power' >= (FTP * 25) \div 100
             /\ power' > 0]_vars

\* C37: no tick divides by a cadence of zero: a tick that changes the crank
\* record adds one revolution and floor(61440 / cadence) to the event time,
\* modulo 65536, with a cadence above 0, and a tick that leaves the cadence
\* at 0 leaves the crank record as it is, in every version of updateValues.
C37_CrankGuarded ==
    [][/\ (crankRevolutions' # crankRevolutions \/ lastCrankEventTime' # lastCrankEventTime)
            => /\ cadence' > 0
               /\ crankRevolutions' = (crankRevolutions + 1) % 65536
               /\ lastCrankEventTime' = (lastCrankEventTime + 61440 \div cadence') % 65536
       /\ (lastUpdate' # lastUpdate /\ cadence' = 0)
            => UNCHANGED <<crankRevolutions, lastCrankEventTime>>]_vars

\* the second tick after the end of a session of road_to_halo.ino: the
\* cadence is 0 and the crank record is the one of the last running tick
C37_Witness ==
    /\ version = "v0235"
    /\ Planned
    /\ workoutFinished
    /\ lastUpdate = millis
    /\ WorkoutElapsed > totalWorkoutDuration
    /\ cadence = 0
    /\ crankRevolutions > 0
    /\ lastCrankEventTime > 0

\* the step is a tick that reads workout[currentSegment] (line 738): the
\* plan is played and updateValues() does not take the branch of the
\* finished session
PlanReadingTick ==
    /\ Planned
    /\ TRAINING_MODE = "auto"
    /\ lastUpdate' # lastUpdate
    /\ ElapsedSeconds(lastUpdate', workoutStartTime) < totalWorkoutDuration

\* C38: whenever a tick of the playback reads workout[currentSegment], the
\* segment pointer is below totalWorkoutSegments: it never indexes past the
\* end of the plan.
C38_PointerWithinPlan ==
    [][PlanReadingTick => currentSegment < totalWorkoutSegments]_vars

\* C39: from the first tick of the recovery onward every tick leaves
\* crankRevolutions and lastCrankEventTime unchanged, and the crank record
\* sent is the same as the one sent before it.
C39_CrankFrozenAfterEnd ==
    [][(Planned /\ lastUpdate' # lastUpdate /\ workoutFinished')
          => /\ crankRevolutions' = crankRevolutions
             /\ lastCrankEventTime' = lastCrankEventTime
             /\ (cadenceData # << >> /\ cadenceData' # << >>)
                  => cadenceData' = cadenceData]_vars

\* a tick after the clock has turned round: the playback has resumed, a
\* device is connected and the crank record is the one of the end of the
\* session
C39_Witness ==
    /\ Planned
    /\ workoutFinished
    /\ lastUpdate = millis
    /\ WorkoutElapsed < totalWorkoutDuration
    /\ power > 0
    /\ cadence = 0
    /\ crankRevolutions > 0
    /\ cadenceData = <<2, crankRevolutions % 256, crankRevolutions \div 256,
                       lastCrankEventTime % 256, lastCrankEventTime \div 256>>

-----------------------------------------------------------------------------
(* Properties of the manual mode after the end of the session *)

\* an iteration of loop() in manual mode that finds the session ended
AfterEndIteration ==
    /\ Planned
    /\ TRAINING_MODE = "manual"
    /\ workoutFinished
    /\ millis' # millis

\* C40: in manual mode, once the session has ended, an iteration of loop()
\* without a tick leaves power, cadence and heart rate as they are, whatever
\* the buttons do to manualTargetPower, and every tick reports power 0,
\* cadence 0 and the heart rate of the recovery profile.
C40_ButtonsIgnoredAfterEnd ==
    [][AfterEndIteration
          => IF lastUpdate' = lastUpdate
             THEN UNCHANGED <<power, cadence, heartRate>>
             ELSE /\ power' = 0
                  /\ cadence' = 0
                  /\ heartRate' = RecoveryHeartRate(finalHeartRate,
                                       ElapsedSeconds(lastUpdate', cooldownStartTime))]_vars

=============================================================================
